---- MODULE Spec2Model ----
(***************************************************************************)
(* SSH profile manager: the profile registry, its JSON store and the       *)
(* command builder, as implemented by ssh_manager.py (SSHManager, "cli")   *)
(* and ssh_gui.py (SSHManagerGUI, "gui").                                  *)
(***************************************************************************)
EXTENDS Integers, Sequences, FiniteSets, TLC

VARIABLES
    store,      \* the file at config_file: [exists, mode, content]
    profiles,   \* profiles[m]: the dict self.profiles of manager m, in insertion order
    kind,       \* kind[m]: "none" (no object), "cli" (SSHManager) or "gui" (SSHManagerGUI)
    pc,         \* pc[m]: "idle", or "running" while subprocess.run blocks inside connect
    child,      \* child[m]: the argument list of the process subprocess.run is running
    now,        \* the system clock read by datetime.now()
    nextId,     \* number of the next uuid4 handed out
    last        \* what the most recent step did (return value, exception, output,
                \* effects), and which manager wrote the store file last

vars == <<store, profiles, kind, pc, child, now, nextId, last>>

----------------------------------------------------------------------------
(* Bounds *)

MaxClock == 2      \* the clock runs over 1..MaxClock
MaxAdds == 2       \* at most MaxAdds profiles are ever constructed by add
MaxDocLen == 2     \* the initial document holds at most MaxDocLen entries
MaxUseCount == 1   \* a profile is connected to from the menu at most MaxUseCount times

Managers == {1, 2}

----------------------------------------------------------------------------
(* Python values *)

None == "<None>"

\* truthiness of an optional string: None and "" are falsy
Truthy(s) == s # None /\ s # ""

\* datetime.now().isoformat() at clock value t
IsoFormat(t) == "t" \o ToString(t)

\* str(uuid.uuid4()) for the n-th generated identifier
Uuid4(n) == "id" \o ToString(n)

UpperCase == <<"A", "B", "C", "D", "E", "F", "G", "H", "I", "J", "K", "L", "M",
               "N", "O", "P", "Q", "R", "S", "T", "U", "V", "W", "X", "Y", "Z">>
LowerCase == <<"a", "b", "c", "d", "e", "f", "g", "h", "i", "j", "k", "l", "m",
               "n", "o", "p", "q", "r", "s", "t", "u", "v", "w", "x", "y", "z">>

LowerChar(c) ==
    IF \E i \in 1..26 : UpperCase[i] = c
    THEN LowerCase[CHOOSE i \in 1..26 : UpperCase[i] = c]
    ELSE c

RECURSIVE Lower(_)
\* str.lower()
Lower(s) ==
    IF Len(s) = 0 THEN ""
    ELSE LowerChar(SubSeq(s, 1, 1)) \o Lower(SubSeq(s, 2, Len(s)))

\* the Python test "q in s" on strings
IsSubstr(q, s) ==
    \E i \in 0..(Len(s) - Len(q)) : SubSeq(s, i + 1, i + Len(q)) = q

RECURSIVE SplitFrom(_, _, _)
\* str.split() from position i on, cur being the word read so far
SplitFrom(s, i, cur) ==
    IF i > Len(s)
    THEN IF cur = "" THEN <<>> ELSE <<cur>>
    ELSE IF SubSeq(s, i, i) = " "
    THEN (IF cur = "" THEN <<>> ELSE <<cur>>) \o SplitFrom(s, i + 1, "")
    ELSE SplitFrom(s, i + 1, cur \o SubSeq(s, i, i))

Split(s) == SplitFrom(s, 1, "")

RECURSIVE Strip(_)
\* str.strip() for blanks
Strip(s) ==
    IF Len(s) = 0 THEN ""
    ELSE IF SubSeq(s, 1, 1) = " " THEN Strip(SubSeq(s, 2, Len(s)))
    ELSE IF SubSeq(s, Len(s), Len(s)) = " " THEN Strip(SubSeq(s, 1, Len(s) - 1))
    ELSE s

----------------------------------------------------------------------------
(* Python dict, kept as the sequence of its items in insertion order *)

Keys(d) == {d[i].key : i \in DOMAIN d}

HasKey(d, k) == \E i \in DOMAIN d : d[i].key = k

IndexOf(d, k) == CHOOSE i \in DOMAIN d : d[i].key = k

DictGet(d, k) == d[IndexOf(d, k)].val

\* variant of DictSet: the item is always added at the end
DictSet_append(d, k, v) == Append(d, [key |-> k, val |-> v])

\* d[k] = v: an existing key keeps its position, a new key goes last
DictSet(d, k, v) ==
    IF HasKey(d, k)
    THEN [d EXCEPT ![IndexOf(d, k)] = [key |-> k, val |-> v]]
    ELSE Append(d, [key |-> k, val |-> v])

\* del d[k]
DictDel(d, k) ==
    LET i == IndexOf(d, k)
    IN  SubSeq(d, 1, i - 1) \o SubSeq(d, i + 1, Len(d))

\* list(d.values())
Values(d) == [i \in DOMAIN d |-> d[i].val]

\* list(d.keys())
KeyList(d) == [i \in DOMAIN d |-> d[i].key]

----------------------------------------------------------------------------
(* SSHProfile *)

\* data.get(k, default)
Get(data, k, default) == IF k \in DOMAIN data THEN data[k] ELSE default

\* variant of SSHProfile: the description is stored as given, without the
\* default
SSHProfile_nodefault(k, id, t, name, host, username, port, key, jump, desc, tags) ==
    LET base == [id |-> id, name |-> name, host |-> host, username |-> username,
                 port |-> port, private_key_path |-> key, jump_host |-> jump,
                 description |-> desc,
                 created_at |-> IsoFormat(t), last_used |-> None]
    IN  IF k = "gui"
        THEN base @@ [tags |-> tags, use_count |-> 0]
        ELSE base

\* variant of SSHProfile: the default description names the profile, not
\* the host
SSHProfile_default_name(k, id, t, name, host, username, port, key, jump, desc, tags) ==
    LET base == [id |-> id, name |-> name, host |-> host, username |-> username,
                 port |-> port, private_key_path |-> key, jump_host |-> jump,
                 description |-> IF Truthy(desc) THEN desc
                                 ELSE "SSH connection to " \o name,
                 created_at |-> IsoFormat(t), last_used |-> None]
    IN  IF k = "gui"
        THEN base @@ [tags |-> tags, use_count |-> 0]
        ELSE base

\* SSHProfile.__init__ of either front end; id and t are the uuid and the
\* clock value it draws
SSHProfile(k, id, t, name, host, username, port, key, jump, desc, tags) ==
    LET base == [id |-> id, name |-> name, host |-> host, username |-> username,
                 port |-> port, private_key_path |-> key, jump_host |-> jump,
                 description |-> IF Truthy(desc) THEN desc
                                 ELSE "SSH connection to " \o host,
                 created_at |-> IsoFormat(t), last_used |-> None]
    IN  IF k = "gui"
        THEN base @@ [tags |-> tags, use_count |-> 0]
        ELSE base

\* variant of to_dict: the record carries no 'last_used'
to_dict_no_last_used(k, p) ==
    LET base == [id |-> p.id, name |-> p.name, host |-> p.host,
                 username |-> p.username, port |-> p.port,
                 private_key_path |-> p.private_key_path,
                 jump_host |-> p.jump_host, description |-> p.description,
                 created_at |-> p.created_at]
    IN  IF k = "gui"
        THEN base @@ [tags |-> p.tags, use_count |-> p.use_count]
        ELSE base

\* SSHProfile.to_dict
to_dict(k, p) ==
    LET base == [id |-> p.id, name |-> p.name, host |-> p.host,
                 username |-> p.username, port |-> p.port,
                 private_key_path |-> p.private_key_path,
                 jump_host |-> p.jump_host, description |-> p.description,
                 created_at |-> p.created_at, last_used |-> p.last_used]
    IN  IF k = "gui"
        THEN base @@ [tags |-> p.tags, use_count |-> p.use_count]
        ELSE base

RequiredKeys == {"name", "host", "username", "id"}

\* a JSON value that is not an object, as an entry of the "profiles" list
JsonScalar(v) == [scalar |-> v]

IsObject(data) == "scalar" \notin DOMAIN data

\* variant of from_dict: 'created_at' is read with data.get('created_at'),
\* without the default
from_dict_created_none(k, data, t) ==
    LET p == SSHProfile(k, Uuid4(0), t, data.name, data.host, data.username,
                        Get(data, "port", 22),
                        Get(data, "private_key_path", None),
                        Get(data, "jump_host", None),
                        Get(data, "description", None),
                        Get(data, "tags", <<>>))
        q == [p EXCEPT !.id = data.id,
                       !.created_at = Get(data, "created_at", None),
                       !.last_used = Get(data, "last_used", None)]
    IN  IF k = "gui"
        THEN [q EXCEPT !.use_count = Get(data, "use_count", 0)]
        ELSE q

\* variant of from_dict: the id drawn by the constructor is kept instead of
\* data['id']
from_dict_new_id(k, data, t) ==
    LET p == SSHProfile(k, Uuid4(0), t, data.name, data.host, data.username,
                        Get(data, "port", 22),
                        Get(data, "private_key_path", None),
                        Get(data, "jump_host", None),
                        Get(data, "description", None),
                        Get(data, "tags", <<>>))
        q == [p EXCEPT !.created_at = Get(data, "created_at", IsoFormat(t)),
                       !.last_used = Get(data, "last_used", None)]
    IN  IF k = "gui"
        THEN [q EXCEPT !.use_count = Get(data, "use_count", 0)]
        ELSE q

\* SSHProfile.from_dict on a record holding the required keys
from_dict(k, data, t) ==
    LET p == SSHProfile(k, Uuid4(0), t, data.name, data.host, data.username,
                        Get(data, "port", 22),
                        Get(data, "private_key_path", None),
                        Get(data, "jump_host", None),
                        Get(data, "description", None),
                        Get(data, "tags", <<>>))
        q == [p EXCEPT !.id = data.id,
                       !.created_at = Get(data, "created_at", IsoFormat(t)),
                       !.last_used = Get(data, "last_used", None)]
    IN  IF k = "gui"
        THEN [q EXCEPT !.use_count = Get(data, "use_count", 0)]
        ELSE q

\* no profile: what a call of from_dict that raises leaves its caller with
NoProfile == <<>>

\* a call SSHProfile.from_dict(data) on any JSON object: data['name'],
\* data['host'], data['username'] and data['id'] raise KeyError when absent
FromDictCall(k, data, t) ==
    IF RequiredKeys \subseteq DOMAIN data
    THEN [raised |-> None, profile |-> from_dict(k, data, t)]
    ELSE [raised |-> "KeyError", profile |-> NoProfile]

\* variant of generate_ssh_command: the jump host is appended before the key
generate_ssh_command_jump_first(p) ==
    LET c1 == "ssh " \o p.username \o "@" \o p.host
        c2 == IF p.port # 22 THEN c1 \o " -p " \o ToString(p.port) ELSE c1
        c3 == IF Truthy(p.jump_host) THEN c2 \o " -J " \o p.jump_host ELSE c2
    IN  IF Truthy(p.private_key_path)
        THEN c3 \o " -i " \o p.private_key_path ELSE c3

\* SSHProfile.generate_ssh_command
generate_ssh_command(p) ==
    LET c1 == "ssh " \o p.username \o "@" \o p.host
        c2 == IF p.port # 22 THEN c1 \o " -p " \o ToString(p.port) ELSE c1
        c3 == IF Truthy(p.private_key_path)
              THEN c2 \o " -i " \o p.private_key_path ELSE c2
    IN  IF Truthy(p.jump_host) THEN c3 \o " -J " \o p.jump_host ELSE c3

----------------------------------------------------------------------------
(* The store file *)

EmptyContent == [top |-> "none", version |-> "", profiles |-> <<>>]

\* content of a file holding a JSON object with "version" and "profiles"
Document(version, recs) == [top |-> "object", version |-> version, profiles |-> recs]

RECURSIVE LoadLoop(_, _, _, _, _)
\* the loop of load_profiles over data.get('profiles', []), from entry i on:
\* KeyError is caught (and ends the loop), TypeError is not
LoadLoop(k, d, recs, i, t) ==
    IF i > Len(recs)
    THEN [profiles |-> d, raised |-> None, trace |-> <<>>]
    ELSE IF ~IsObject(recs[i])
    THEN [profiles |-> d, raised |-> "TypeError", trace |-> <<>>]
    ELSE IF ~(RequiredKeys \subseteq DOMAIN recs[i])
    THEN [profiles |-> d, raised |-> None, trace |-> <<"print:load_error">>]
    ELSE LET p == from_dict(k, recs[i], t)
         IN  LoadLoop(k, DictSet(d, p.name, p), recs, i + 1, t)

\* variant of load_profiles: JSONDecodeError is not caught
load_profiles_uncaught(k, d, st, t) ==
    IF ~st.exists
    THEN [profiles |-> d, raised |-> None, trace |-> <<>>]
    ELSE IF st.mode = "none"
    THEN [profiles |-> d, raised |-> "PermissionError", trace |-> <<>>]
    ELSE IF st.content.top = "invalid"
    THEN [profiles |-> d, raised |-> "JSONDecodeError", trace |-> <<>>]
    ELSE IF st.content.top # "object"
    THEN [profiles |-> d, raised |-> "AttributeError", trace |-> <<>>]
    ELSE LoadLoop(k, d, st.content.profiles, 1, t)

\* variant of load_profiles: the loop over the entries starts at the second
load_profiles_skip_first(k, d, st, t) ==
    IF ~st.exists
    THEN [profiles |-> d, raised |-> None, trace |-> <<>>]
    ELSE IF st.mode = "none"
    THEN [profiles |-> d, raised |-> "PermissionError", trace |-> <<>>]
    ELSE IF st.content.top = "invalid"
    THEN [profiles |-> d, raised |-> None, trace |-> <<"print:load_error">>]
    ELSE IF st.content.top # "object"
    THEN [profiles |-> d, raised |-> "AttributeError", trace |-> <<>>]
    ELSE LoadLoop(k, d, st.content.profiles, 2, t)

\* load_profiles on the dict d: the dict afterwards, the exception that
\* escapes (None when none does) and what was printed
load_profiles(k, d, st, t) ==
    IF ~st.exists
    THEN [profiles |-> d, raised |-> None, trace |-> <<>>]
    ELSE IF st.mode = "none"
    THEN [profiles |-> d, raised |-> "PermissionError", trace |-> <<>>]
    ELSE IF st.content.top = "invalid"
    THEN [profiles |-> d, raised |-> None, trace |-> <<"print:load_error">>]
    ELSE IF st.content.top # "object"
    THEN [profiles |-> d, raised |-> "AttributeError", trace |-> <<>>]
    ELSE LoadLoop(k, d, st.content.profiles, 1, t)

\* the 'version' written by save_profiles
Version(k) == IF k = "gui" THEN "2.0" ELSE "1.0"

\* the list [profile.to_dict() for profile in self.profiles.values()]
Records(k, d) == [i \in DOMAIN d |-> to_dict(k, d[i].val)]

\* variant of save_profiles: returns without writing the file
save_profiles_skip(k, d, st) == [store |-> st, raised |-> None]

\* variant of save_profiles: the records of the file whose names the dict
\* does not hold are kept in front of the dict's records
save_profiles_merge(k, d, st) ==
    IF st.mode # "rw"
    THEN [store |-> st, raised |-> "PermissionError"]
    ELSE LET kept == IF st.exists /\ st.content.top = "object"
                     THEN SelectSeq(st.content.profiles,
                                    LAMBDA r : /\ "name" \in DOMAIN r
                                               /\ ~HasKey(d, r.name))
                     ELSE <<>>
         IN  [store |-> [exists |-> TRUE, mode |-> "rw",
                         content |-> Document(Version(k), kept \o Records(k, d))],
              raised |-> None]

\* save_profiles: the file afterwards and the exception that escapes
save_profiles(k, d, st) ==
    IF st.mode # "rw"
    THEN [store |-> st, raised |-> "PermissionError"]
    ELSE [store |-> [exists |-> TRUE, mode |-> "rw",
                     content |-> Document(Version(k), Records(k, d))],
          raised |-> None]

----------------------------------------------------------------------------
(* Suggestions *)

\* variant of suggest_similar: only names that contain the given name
suggest_similar_one_way(d, name) ==
    SelectSeq(KeyList(d), LAMBDA pn : IsSubstr(Lower(name), Lower(pn)))

\* the list built by suggest_similar
suggest_similar(d, name) ==
    SelectSeq(KeyList(d),
              LAMBDA pn : \/ IsSubstr(Lower(name), Lower(pn))
                          \/ IsSubstr(Lower(pn), Lower(name)))

NoSuggest == [called |-> FALSE, arg |-> None, names |-> <<>>]

Suggest(d, name) == [called |-> TRUE, arg |-> name, names |-> suggest_similar(d, name)]

\* what suggest_similar prints
SuggestTrace(d, name) ==
    IF suggest_similar(d, name) # <<>> THEN <<"print:did_you_mean">> ELSE <<>>

----------------------------------------------------------------------------
(* Observations of a step *)

\* the manager object whose save_profiles wrote the store file most
\* recently, after a step of manager m with the events tr (0 when there is
\* none: nothing was saved yet, or that object has been replaced by a new one)
Writer(op, m, tr) ==
    IF \E i \in DOMAIN tr : tr[i] = "save" THEN m
    ELSE IF op = "construct" /\ last.writer = m THEN 0
    ELSE last.writer

Obs(op, m, name, dry, result, raised, trace, cmd, sugg) ==
    [op |-> op, m |-> m, name |-> name, dry |-> dry, result |-> result,
     raised |-> raised, trace |-> trace, cmd |-> cmd, suggest |-> sugg,
     writer |-> Writer(op, m, trace)]

\* the events of a trace, as a set
Events(tr) == {tr[i] : i \in DOMAIN tr}

----------------------------------------------------------------------------
(* Inputs *)

\* names given to add, and names given to connect and remove
Names == {"a", "Ab"}
QueryNames == Names \cup {""}

ArgDefault == [host |-> "h", username |-> "u", port |-> 22, key |-> None,
               jump |-> None, desc |-> None]
ArgFull == [host |-> "H", username |-> "u", port |-> 2222, key |-> "k",
            jump |-> "j", desc |-> "d"]
ArgEmptyDesc == [ArgDefault EXCEPT !.desc = ""]
AddArgs == {ArgDefault, ArgFull, ArgEmptyDesc}

\* entries of the "profiles" list of a stored document
RecFull == [id |-> "x1", name |-> "a", host |-> "h", username |-> "u",
            port |-> 2222, private_key_path |-> "k", jump_host |-> None,
            description |-> "d", created_at |-> "t0", last_used |-> None]
RecMin == [id |-> "x2", name |-> "a", host |-> "H", username |-> "u"]
RecBad == [name |-> "incomplete"]
RecNoId == [name |-> "Ab", host |-> "h", username |-> "u"]
RecScalar == JsonScalar("x")
InitRecords == {RecFull, RecMin, RecBad, RecNoId, RecScalar}

RECURSIVE SeqsUpTo(_, _)
\* the sequences over S of length at most n
SeqsUpTo(S, n) ==
    IF n = 0 THEN {<<>>}
    ELSE LET shorter == SeqsUpTo(S, n - 1)
         IN  shorter \cup {Append(s, x) : s \in shorter, x \in S}

InitContents ==
    {[top |-> "invalid", version |-> "", profiles |-> <<>>],
     [top |-> "array", version |-> "", profiles |-> <<>>]}
    \cup {Document("1.0", recs) : recs \in SeqsUpTo(InitRecords, MaxDocLen)}

Modes == {"rw", "ro", "none"}

File(mode, content) == [exists |-> TRUE, mode |-> mode, content |-> content]

Absent(mode) == [exists |-> FALSE, mode |-> mode, content |-> EmptyContent]

\* every state of the store path a manager may be constructed on
InitStores ==
    {Absent(md) : md \in Modes}
    \cup {File(md, c) : md \in Modes, c \in InitContents}

\* the store paths the operations are run on: no file yet or a document of
\* valid records (two of them under one name), writable or read-only
OpStores ==
    {Absent("rw"),
     File("rw", Document("1.0", <<RecFull, RecMin>>)),
     File("ro", Document("1.0", <<RecMin>>))}

ProcessOutcomes == {"exit0", "exit_nonzero", "TimeoutExpired", "CalledProcessError",
                    "OSError", "KeyboardInterrupt"}

----------------------------------------------------------------------------
(* Initial state: the store file as the environment left it, no manager yet *)

InitWith(stores) ==
    /\ store \in stores
    /\ profiles = [m \in Managers |-> <<>>]
    /\ kind = [m \in Managers |-> "none"]
    /\ pc = [m \in Managers |-> "idle"]
    /\ child = [m \in Managers |-> <<>>]
    /\ now = 1
    /\ nextId = 1
    /\ last = [op |-> "init", m |-> 0, name |-> None, dry |-> FALSE,
               result |-> "None", raised |-> None, trace |-> <<>>, cmd |-> None,
               suggest |-> NoSuggest, writer |-> 0]

Init == InitWith(OpStores)

InitLoad == InitWith(InitStores)

----------------------------------------------------------------------------
(* Environment *)

\* time passes between two reads of datetime.now()
Tick ==
    /\ now < MaxClock
    /\ now' = now + 1
    /\ last' = Obs("tick", 0, None, FALSE, "None", None, <<>>, None, NoSuggest)
    /\ UNCHANGED <<store, profiles, kind, pc, child, nextId>>

----------------------------------------------------------------------------
(* SSHManager / SSHManagerGUI construction and load *)

\* SSHManager(config_file) or SSHManagerGUI(config_file): a fresh object
\* whose __init__ calls load_profiles; an escaping exception leaves no object
Construct(m, k) ==
    /\ pc[m] = "idle"
    /\ LET r == load_profiles(k, <<>>, store, now)
       IN  /\ kind' = [kind EXCEPT ![m] = IF r.raised = None THEN k ELSE "none"]
           /\ profiles' = [profiles EXCEPT ![m] = IF r.raised = None THEN r.profiles ELSE <<>>]
           /\ last' = Obs("construct", m, None, FALSE,
                          IF r.raised = None THEN "None" ELSE "raise",
                          r.raised, r.trace, None, NoSuggest)
    /\ UNCHANGED <<store, pc, child, now, nextId>>

\* load_profiles() called again on a live manager: it merges into self.profiles
Load(m) ==
    /\ kind[m] # "none"
    /\ pc[m] = "idle"
    /\ LET r == load_profiles(kind[m], profiles[m], store, now)
       IN  /\ profiles' = [profiles EXCEPT ![m] = r.profiles]
           /\ last' = Obs("load", m, None, FALSE,
                          IF r.raised = None THEN "None" ELSE "raise",
                          r.raised, r.trace, None, NoSuggest)
    /\ UNCHANGED <<store, kind, pc, child, now, nextId>>

----------------------------------------------------------------------------
(* SSHManager operations *)

\* variant of add_profile: the name is not looked up before the insertion
add_profile_overwrite(d, st, name, a, id, t) ==
    LET p == SSHProfile("cli", id, t, name, a.host, a.username, a.port,
                        a.key, a.jump, a.desc, <<>>)
        d2 == DictSet(d, name, p)
        sv == save_profiles("cli", d2, st)
    IN  IF sv.raised # None
        THEN [profiles |-> d2, store |-> sv.store, result |-> "raise",
              raised |-> sv.raised, trace |-> <<>>, fresh |-> TRUE]
        ELSE [profiles |-> d2, store |-> sv.store, result |-> "True",
              raised |-> None, trace |-> <<"save", "print:added">>,
              fresh |-> TRUE]

\* add_profile(name, host, username, port, private_key_path, jump_host,
\* description), where id and t are the uuid and clock value drawn by the
\* constructor; fresh says whether a profile was constructed
add_profile(d, st, name, a, id, t) ==
    IF HasKey(d, name)
    THEN [profiles |-> d, store |-> st, result |-> "False", raised |-> None,
          trace |-> <<"print:already_exists">>, fresh |-> FALSE]
    ELSE LET p == SSHProfile("cli", id, t, name, a.host, a.username, a.port,
                             a.key, a.jump, a.desc, <<>>)
             d2 == DictSet(d, name, p)
             sv == save_profiles("cli", d2, st)
         IN  IF sv.raised # None
             THEN [profiles |-> d2, store |-> sv.store, result |-> "raise",
                   raised |-> sv.raised, trace |-> <<>>, fresh |-> TRUE]
             ELSE [profiles |-> d2, store |-> sv.store, result |-> "True",
                   raised |-> None, trace |-> <<"save", "print:added">>,
                   fresh |-> TRUE]

AddProfile(m, name, a) ==
    /\ kind[m] = "cli"
    /\ pc[m] = "idle"
    /\ LET r == add_profile(profiles[m], store, name, a, Uuid4(nextId), now)
       IN  /\ r.fresh => nextId <= MaxAdds
           /\ profiles' = [profiles EXCEPT ![m] = r.profiles]
           /\ store' = r.store
           /\ nextId' = IF r.fresh THEN nextId + 1 ELSE nextId
           /\ last' = Obs("add", m, name, FALSE, r.result, r.raised, r.trace,
                          None, NoSuggest)
    /\ UNCHANGED <<kind, pc, child, now>>

\* variant of remove_profile: the store is written also when the name is
\* not found
remove_profile_saves(d, st, name) ==
    LET d2 == IF HasKey(d, name) THEN DictDel(d, name) ELSE d
        sv == save_profiles("cli", d2, st)
    IN  IF sv.raised # None
        THEN [profiles |-> d2, store |-> sv.store, result |-> "raise",
              raised |-> sv.raised, trace |-> <<>>]
        ELSE IF ~HasKey(d, name)
        THEN [profiles |-> d2, store |-> sv.store, result |-> "False",
              raised |-> None, trace |-> <<"print:not_found">>]
        ELSE [profiles |-> d2, store |-> sv.store, result |-> "True",
              raised |-> None, trace |-> <<"save", "print:removed">>]

\* remove_profile(name)
remove_profile(d, st, name) ==
    IF ~HasKey(d, name)
    THEN [profiles |-> d, store |-> st, result |-> "False", raised |-> None,
          trace |-> <<"print:not_found">>]
    ELSE LET d2 == DictDel(d, name)
             sv == save_profiles("cli", d2, st)
         IN  IF sv.raised # None
             THEN [profiles |-> d2, store |-> sv.store, result |-> "raise",
                   raised |-> sv.raised, trace |-> <<>>]
             ELSE [profiles |-> d2, store |-> sv.store, result |-> "True",
                   raised |-> None, trace |-> <<"save", "print:removed">>]

RemoveProfile(m, name) ==
    /\ kind[m] = "cli"
    /\ pc[m] = "idle"
    /\ LET r == remove_profile(profiles[m], store, name)
       IN  /\ profiles' = [profiles EXCEPT ![m] = r.profiles]
           /\ store' = r.store
           /\ last' = Obs("remove", m, name, FALSE, r.result, r.raised, r.trace,
                          None, NoSuggest)
    /\ UNCHANGED <<kind, pc, child, now, nextId>>

\* variant of connect_not_found: suggest_similar is not called
connect_not_found_silent(d, st, name) ==
    [profiles |-> d, store |-> st, result |-> "False", raised |-> None,
     running |-> FALSE, trace |-> <<"print:not_found">>,
     cmd |-> None, suggest |-> NoSuggest]

\* connect(name, ...) on a name that is not in self.profiles
connect_not_found(d, st, name) ==
    [profiles |-> d, store |-> st, result |-> "False", raised |-> None,
     running |-> FALSE,
     trace |-> <<"print:not_found", "suggest">> \o SuggestTrace(d, name),
     cmd |-> None, suggest |-> Suggest(d, name)]

\* connect(name, dry_run=True) on an existing profile
connect_dry(d, st, name) ==
    [profiles |-> d, store |-> st, result |-> "True", raised |-> None,
     running |-> FALSE, trace |-> <<"print:command">>,
     cmd |-> generate_ssh_command(DictGet(d, name)), suggest |-> NoSuggest]

\* variant of connect_real: the time stamp is put on every profile
connect_real_stamps_all(d, st, name, t) ==
    LET p == DictGet(d, name)
        ssh_cmd == generate_ssh_command(p)
        d2 == [i \in DOMAIN d |->
                  [d[i] EXCEPT !.val = [@ EXCEPT !.last_used = IsoFormat(t)]]]
        sv == save_profiles("cli", d2, st)
    IN  IF sv.raised # None
        THEN [profiles |-> d2, store |-> sv.store, result |-> "raise",
              raised |-> sv.raised, running |-> FALSE,
              trace |-> <<"print:connecting", "stamp">>,
              cmd |-> ssh_cmd, suggest |-> NoSuggest]
        ELSE [profiles |-> d2, store |-> sv.store, result |-> "pending",
              raised |-> None, running |-> TRUE,
              trace |-> <<"print:connecting", "stamp", "save", "run">>,
              cmd |-> ssh_cmd, suggest |-> NoSuggest]

\* connect(name, dry_run=False) on an existing profile, up to the point
\* where subprocess.run is entered
connect_real(d, st, name, t) ==
    LET p == DictGet(d, name)
        ssh_cmd == generate_ssh_command(p)
        d2 == DictSet(d, name, [p EXCEPT !.last_used = IsoFormat(t)])
        sv == save_profiles("cli", d2, st)
    IN  IF sv.raised # None
        THEN [profiles |-> d2, store |-> sv.store, result |-> "raise",
              raised |-> sv.raised, running |-> FALSE,
              trace |-> <<"print:connecting", "stamp">>,
              cmd |-> ssh_cmd, suggest |-> NoSuggest]
        ELSE [profiles |-> d2, store |-> sv.store, result |-> "pending",
              raised |-> None, running |-> TRUE,
              trace |-> <<"print:connecting", "stamp", "save", "run">>,
              cmd |-> ssh_cmd, suggest |-> NoSuggest]

\* variant of connect: dry_run is tested after the stamp and the save
connect_ignores_dry(d, st, name, dry, t) ==
    IF ~HasKey(d, name) THEN connect_not_found(d, st, name)
    ELSE IF dry
    THEN [connect_real(d, st, name, t) EXCEPT !.result = "True", !.running = FALSE]
    ELSE connect_real(d, st, name, t)

\* connect(name, dry_run)
connect(d, st, name, dry, t) ==
    IF ~HasKey(d, name) THEN connect_not_found(d, st, name)
    ELSE IF dry THEN connect_dry(d, st, name)
    ELSE connect_real(d, st, name, t)

Connect(m, name, dry) ==
    /\ kind[m] = "cli"
    /\ pc[m] = "idle"
    /\ LET r == connect(profiles[m], store, name, dry, now)
       IN  /\ profiles' = [profiles EXCEPT ![m] = r.profiles]
           /\ store' = r.store
           /\ pc' = [pc EXCEPT ![m] = IF r.running THEN "running" ELSE "idle"]
           /\ child' = [child EXCEPT ![m] = IF r.running THEN Split(r.cmd) ELSE <<>>]
           /\ last' = Obs("connect", m, name, dry, r.result, r.raised, r.trace,
                          r.cmd, r.suggest)
    /\ UNCHANGED <<kind, now, nextId>>

\* variant of RunHandler: only "except Exception", which lets
\* KeyboardInterrupt through
RunHandler_narrow(outcome) ==
    IF outcome \in {"exit0", "exit_nonzero"}
    THEN [trace |-> <<>>, raised |-> None]
    ELSE IF outcome = "KeyboardInterrupt"
    THEN [trace |-> <<>>, raised |-> "KeyboardInterrupt"]
    ELSE [trace |-> <<"print:connection_failed">>, raised |-> None]

\* the except clauses around subprocess.run: what is printed for an outcome,
\* and the exception that escapes
RunHandler(outcome) ==
    IF outcome \in {"exit0", "exit_nonzero"}
    THEN [trace |-> <<>>, raised |-> None]
    ELSE IF outcome = "KeyboardInterrupt"
    THEN [trace |-> <<"print:interrupted">>, raised |-> None]
    ELSE [trace |-> <<"print:connection_failed">>, raised |-> None]

\* subprocess.run returns or raises, and connect (or connect_to_profile)
\* runs to its end
ConnectReturn(m, outcome) ==
    /\ pc[m] = "running"
    /\ pc' = [pc EXCEPT ![m] = "idle"]
    /\ child' = [child EXCEPT ![m] = <<>>]
    /\ LET h == RunHandler(outcome)
       IN  last' = Obs("connect_end", m, None, FALSE,
                       IF h.raised = None THEN "None" ELSE "raise", h.raised,
                       <<outcome>> \o h.trace, None, NoSuggest)
    /\ UNCHANGED <<store, profiles, kind, now, nextId>>

----------------------------------------------------------------------------
(* SSHManagerGUI operations *)

\* the integers a prompt is answered with
IntLits == 0..3 \cup {22, 2222, 70000}

\* int(s): the value, or ok = FALSE for ValueError
ParseInt(s) ==
    IF \E n \in IntLits : ToString(n) = s
    THEN [ok |-> TRUE, val |-> CHOOSE n \in IntLits : ToString(n) = s]
    ELSE [ok |-> FALSE, val |-> 0]

\* answers to the prompts of add_profile_interactive after the name
FormGood == [host |-> "h", username |-> "u", port |-> "", key |-> "k",
             key_exists |-> FALSE, confirm |-> "Y", jump |-> "", desc |-> "",
             tags |-> "w x"]
FormBadPort == [FormGood EXCEPT !.port = "70000"]
FormNoKey == [FormGood EXCEPT !.confirm = "n"]
AddForms == {FormGood, FormBadPort, FormNoKey}

\* answers to the prompts of edit_profile_interactive ("" keeps the value)
EditKeep == [name |-> "", host |-> "", username |-> "", port |-> "", key |-> "",
             jump |-> "", desc |-> ""]
EditForms ==
    {EditKeep,
     [EditKeep EXCEPT !.name = "a"],
     [EditKeep EXCEPT !.name = "Ab"],
     [EditKeep EXCEPT !.host = "H", !.port = "x"]}

\* variant of connect_to_profile: the use counter is advanced before the
\* answer to the [C]onnect / [S]how / [R]eturn prompt is looked at
connect_to_profile_counts_first(d, st, name, choice, t) ==
    LET p == DictGet(d, name)
        ssh_cmd == generate_ssh_command(p)
        q == [p EXCEPT !.last_used = IsoFormat(t), !.use_count = @ + 1]
        d2 == DictSet(d, name, q)
    IN  IF choice = "c"
        THEN LET sv == save_profiles("gui", d2, st)
             IN  [profiles |-> d2, store |-> sv.store, raised |-> sv.raised,
                  running |-> sv.raised = None,
                  trace |-> IF sv.raised # None
                            THEN <<"print:command", "print:connecting", "stamp">>
                            ELSE <<"print:command", "print:connecting", "stamp", "save", "run">>,
                  cmd |-> ssh_cmd]
        ELSE [profiles |-> d2, store |-> st, raised |-> None, running |-> FALSE,
              trace |-> IF choice = "s" THEN <<"print:command", "print:copied">>
                        ELSE <<"print:command">>,
              cmd |-> ssh_cmd]

\* connect_to_profile(profile) for the profile stored under name, up to the
\* point where subprocess.run is entered (choice 'c') or to its end
connect_to_profile(d, st, name, choice, t) ==
    LET p == DictGet(d, name)
        ssh_cmd == generate_ssh_command(p)
    IN  IF choice = "c"
        THEN LET q == [p EXCEPT !.last_used = IsoFormat(t), !.use_count = @ + 1]
                 d2 == DictSet(d, name, q)
                 sv == save_profiles("gui", d2, st)
             IN  [profiles |-> d2, store |-> sv.store, raised |-> sv.raised,
                  running |-> sv.raised = None,
                  trace |-> IF sv.raised # None
                            THEN <<"print:command", "print:connecting", "stamp">>
                            ELSE <<"print:command", "print:connecting", "stamp", "save", "run">>,
                  cmd |-> ssh_cmd]
        ELSE [profiles |-> d, store |-> st, raised |-> None, running |-> FALSE,
              trace |-> IF choice = "s" THEN <<"print:command", "print:copied">>
                        ELSE <<"print:command">>,
              cmd |-> ssh_cmd]

\* the answers 'c' may be given only while the use counter is below its bound
CanConnect(d, name, choice) ==
    choice = "c" => DictGet(d, name).use_count < MaxUseCount

\* a step of manager m that ends in connect_to_profile
GuiConnectStep(m, op, d, st, name, choice, before) ==
    LET r == connect_to_profile(d, st, name, choice, now)
    IN  /\ CanConnect(d, name, choice)
        /\ profiles' = [profiles EXCEPT ![m] = r.profiles]
        /\ store' = r.store
        /\ pc' = [pc EXCEPT ![m] = IF r.running THEN "running" ELSE "idle"]
        /\ child' = [child EXCEPT ![m] = IF r.running THEN Split(r.cmd) ELSE <<>>]
        /\ last' = Obs(op, m, name, choice # "c",
                       IF r.raised # None THEN "raise"
                       ELSE IF r.running THEN "pending" ELSE "None",
                       r.raised, before \o r.trace, r.cmd, NoSuggest)

\* a step of manager m that returns after printing msg, changing nothing
GuiReturn(m, op, name, msg) ==
    /\ last' = Obs(op, m, name, FALSE, "None", None, msg, None, NoSuggest)
    /\ UNCHANGED <<store, profiles, pc, child>>

\* add_profile_interactive
GuiAdd(m, name, f, connect_now, choice) ==
    /\ kind[m] = "gui"
    /\ pc[m] = "idle"
    /\ LET port == IF f.port = "" THEN [ok |-> TRUE, val |-> 22] ELSE ParseInt(f.port)
       IN  IF name = ""
           THEN GuiReturn(m, "gui_add", name, <<"print:name_empty">>) /\ UNCHANGED nextId
           ELSE IF HasKey(profiles[m], name)
           THEN GuiReturn(m, "gui_add", name, <<"print:already_exists">>) /\ UNCHANGED nextId
           ELSE IF f.host = ""
           THEN GuiReturn(m, "gui_add", name, <<"print:host_empty">>) /\ UNCHANGED nextId
           ELSE IF f.username = ""
           THEN GuiReturn(m, "gui_add", name, <<"print:username_empty">>) /\ UNCHANGED nextId
           ELSE IF ~port.ok \/ port.val <= 0 \/ port.val > 65535
           THEN GuiReturn(m, "gui_add", name, <<"print:invalid_port">>) /\ UNCHANGED nextId
           ELSE IF f.key # "" /\ ~f.key_exists /\ Lower(f.confirm) # "y"
           THEN GuiReturn(m, "gui_add", name, <<>>) /\ UNCHANGED nextId
           ELSE /\ nextId <= MaxAdds
                /\ nextId' = nextId + 1
                /\ LET p == SSHProfile("gui", Uuid4(nextId), now, name, f.host, f.username,
                                       port.val,
                                       IF f.key # "" THEN f.key ELSE None,
                                       IF f.jump # "" THEN f.jump ELSE None,
                                       IF f.desc # "" THEN f.desc ELSE None,
                                       IF f.tags # "" THEN Split(f.tags) ELSE <<>>)
                       d == DictSet(profiles[m], name, p)
                       sv == save_profiles("gui", d, store)
                   IN  IF sv.raised # None
                       THEN /\ profiles' = [profiles EXCEPT ![m] = d]
                            /\ store' = sv.store
                            /\ UNCHANGED <<pc, child>>
                            /\ last' = Obs("gui_add", m, name, FALSE, "raise", sv.raised,
                                           <<>>, None, NoSuggest)
                       ELSE IF Lower(connect_now) = "y"
                       THEN GuiConnectStep(m, "gui_add", d, sv.store, name, choice,
                                           <<"save", "print:added">>)
                       ELSE /\ profiles' = [profiles EXCEPT ![m] = d]
                            /\ store' = sv.store
                            /\ UNCHANGED <<pc, child>>
                            /\ last' = Obs("gui_add", m, name, FALSE, "None", None,
                                           <<"save", "print:added">>, None, NoSuggest)
    /\ UNCHANGED <<kind, now>>

\* connect_interactive, answered with the number sel and then choice
GuiConnect(m, sel, choice) ==
    /\ kind[m] = "gui"
    /\ pc[m] = "idle"
    /\ LET n == ParseInt(sel)
           listed == Values(profiles[m])
       IN  IF profiles[m] = <<>>
           THEN GuiReturn(m, "gui_connect", None, <<"print:no_profiles">>)
           ELSE IF ~n.ok
           THEN GuiReturn(m, "gui_connect", None, <<"print:invalid_input">>)
           ELSE IF ~(0 <= n.val - 1 /\ n.val - 1 < Len(listed))
           THEN GuiReturn(m, "gui_connect", None, <<"print:invalid_selection">>)
           ELSE GuiConnectStep(m, "gui_connect", profiles[m], store,
                               listed[n.val].name, choice, <<>>)
    /\ UNCHANGED <<kind, now, nextId>>

\* the profile after the field prompts of edit_profile_interactive
EditFields(p, f) ==
    LET p1 == IF f.host # "" THEN [p EXCEPT !.host = f.host] ELSE p
        p2 == IF f.username # "" THEN [p1 EXCEPT !.username = f.username] ELSE p1
        p3 == IF f.port # "" /\ ParseInt(f.port).ok
              THEN [p2 EXCEPT !.port = ParseInt(f.port).val] ELSE p2
        p4 == IF f.key # "" THEN [p3 EXCEPT !.private_key_path = f.key] ELSE p3
        p5 == IF f.jump # "" THEN [p4 EXCEPT !.jump_host = f.jump] ELSE p4
    IN  IF f.desc # "" THEN [p5 EXCEPT !.description = f.desc] ELSE p5

\* variant of GuiEdit: a new name is not looked up in self.profiles
GuiEdit_overwrite(m, sel, f) ==
    /\ kind[m] = "gui"
    /\ pc[m] = "idle"
    /\ LET n == ParseInt(sel)
           listed == Values(profiles[m])
       IN  IF profiles[m] = <<>>
           THEN GuiReturn(m, "gui_edit", None, <<"print:no_profiles">>)
           ELSE IF ~n.ok
           THEN GuiReturn(m, "gui_edit", None, <<"print:invalid_input">>)
           ELSE IF ~(0 <= n.val - 1 /\ n.val - 1 < Len(listed))
           THEN GuiReturn(m, "gui_edit", None, <<"print:invalid_selection">>)
           ELSE LET p == listed[n.val]
                    rename == f.name # "" /\ f.name # p.name
                IN  IF FALSE
                    THEN GuiReturn(m, "gui_edit", p.name, <<"print:name_exists">>)
                    ELSE LET d1 == IF rename THEN DictDel(profiles[m], p.name)
                                   ELSE profiles[m]
                             q == EditFields(IF rename THEN [p EXCEPT !.name = f.name]
                                             ELSE p, f)
                             d2 == DictSet(d1, q.name, q)
                             sv == save_profiles("gui", d2, store)
                         IN  /\ profiles' = [profiles EXCEPT ![m] = d2]
                             /\ store' = sv.store
                             /\ UNCHANGED <<pc, child>>
                             /\ last' = IF sv.raised # None
                                        THEN Obs("gui_edit", m, p.name, FALSE, "raise",
                                                 sv.raised, <<>>, None, NoSuggest)
                                        ELSE Obs("gui_edit", m, p.name, FALSE, "None", None,
                                                 <<"save", "print:updated">>, None, NoSuggest)
    /\ UNCHANGED <<kind, now, nextId>>

\* edit_profile_interactive, answered with the number sel and the form f
GuiEdit(m, sel, f) ==
    /\ kind[m] = "gui"
    /\ pc[m] = "idle"
    /\ LET n == ParseInt(sel)
           listed == Values(profiles[m])
       IN  IF profiles[m] = <<>>
           THEN GuiReturn(m, "gui_edit", None, <<"print:no_profiles">>)
           ELSE IF ~n.ok
           THEN GuiReturn(m, "gui_edit", None, <<"print:invalid_input">>)
           ELSE IF ~(0 <= n.val - 1 /\ n.val - 1 < Len(listed))
           THEN GuiReturn(m, "gui_edit", None, <<"print:invalid_selection">>)
           ELSE LET p == listed[n.val]
                    rename == f.name # "" /\ f.name # p.name
                IN  IF rename /\ HasKey(profiles[m], f.name)
                    THEN GuiReturn(m, "gui_edit", p.name, <<"print:name_exists">>)
                    ELSE LET d1 == IF rename THEN DictDel(profiles[m], p.name)
                                   ELSE profiles[m]
                             q == EditFields(IF rename THEN [p EXCEPT !.name = f.name]
                                             ELSE p, f)
                             d2 == DictSet(d1, q.name, q)
                             sv == save_profiles("gui", d2, store)
                         IN  /\ profiles' = [profiles EXCEPT ![m] = d2]
                             /\ store' = sv.store
                             /\ UNCHANGED <<pc, child>>
                             /\ last' = IF sv.raised # None
                                        THEN Obs("gui_edit", m, p.name, FALSE, "raise",
                                                 sv.raised, <<>>, None, NoSuggest)
                                        ELSE Obs("gui_edit", m, p.name, FALSE, "None", None,
                                                 <<"save", "print:updated">>, None, NoSuggest)
    /\ UNCHANGED <<kind, now, nextId>>

\* delete_profile_interactive, answered with the number sel and confirm
GuiDelete(m, sel, confirm) ==
    /\ kind[m] = "gui"
    /\ pc[m] = "idle"
    /\ LET n == ParseInt(sel)
           listed == Values(profiles[m])
       IN  IF profiles[m] = <<>>
           THEN GuiReturn(m, "gui_delete", None, <<"print:no_profiles">>)
           ELSE IF ~n.ok
           THEN GuiReturn(m, "gui_delete", None, <<"print:invalid_input">>)
           ELSE IF ~(0 <= n.val - 1 /\ n.val - 1 < Len(listed))
           THEN GuiReturn(m, "gui_delete", None, <<"print:invalid_selection">>)
           ELSE IF Lower(confirm) # "yes"
           THEN GuiReturn(m, "gui_delete", listed[n.val].name, <<"print:cancelled">>)
           ELSE LET d == DictDel(profiles[m], listed[n.val].name)
                    sv == save_profiles("gui", d, store)
                IN  /\ profiles' = [profiles EXCEPT ![m] = d]
                    /\ store' = sv.store
                    /\ UNCHANGED <<pc, child>>
                    /\ last' = IF sv.raised # None
                               THEN Obs("gui_delete", m, listed[n.val].name, FALSE, "raise",
                                        sv.raised, <<>>, None, NoSuggest)
                               ELSE Obs("gui_delete", m, listed[n.val].name, FALSE, "None",
                                        None, <<"save", "print:deleted">>, None, NoSuggest)
    /\ UNCHANGED <<kind, now, nextId>>

\* reset_profiles, answered with confirm
GuiReset(m, confirm) ==
    /\ kind[m] = "gui"
    /\ pc[m] = "idle"
    /\ IF confirm # "DELETE ALL"
       THEN GuiReturn(m, "gui_reset", None, <<"print:cancelled">>)
       ELSE LET sv == save_profiles("gui", <<>>, store)
            IN  /\ profiles' = [profiles EXCEPT ![m] = <<>>]
                /\ store' = sv.store
                /\ UNCHANGED <<pc, child>>
                /\ last' = IF sv.raised # None
                           THEN Obs("gui_reset", m, None, FALSE, "raise", sv.raised,
                                    <<>>, None, NoSuggest)
                           ELSE Obs("gui_reset", m, None, FALSE, "None", None,
                                    <<"save", "print:all_deleted">>, None, NoSuggest)
    /\ UNCHANGED <<kind, now, nextId>>

----------------------------------------------------------------------------

Selections == {"x", "0", "1", "2"}

\* answers to "Connect now?" and, when that is 'y', to the connect prompt
AfterAdd == {<<"n", "">>, <<"y", "c">>, <<"y", "s">>, <<"y", "r">>}

\* one SSHManager over the store path
Next ==
    \/ Tick
    \/ kind[1] \in {"none", "cli"} /\ Construct(1, "cli")
    \/ Load(1)
    \/ \E name \in Names, a \in AddArgs : AddProfile(1, name, a)
    \/ \E name \in QueryNames : RemoveProfile(1, name)
    \/ \E name \in QueryNames, dry \in BOOLEAN : Connect(1, name, dry)
    \/ \E outcome \in ProcessOutcomes : ConnectReturn(1, outcome)

Spec == Init /\ [][Next]_vars

\* one SSHManagerGUI over the store path
NextGui ==
    \/ Tick
    \/ kind[1] \in {"none", "gui"} /\ Construct(1, "gui")
    \/ Load(1)
    \/ \E name \in QueryNames, f \in AddForms, after \in AfterAdd :
          GuiAdd(1, name, f, after[1], after[2])
    \/ \E sel \in Selections, ch \in {"c", "s", "r"} : GuiConnect(1, sel, ch)
    \/ \E sel \in Selections, f \in EditForms : GuiEdit(1, sel, f)
    \/ \E sel \in Selections, cf \in {"yes", "no"} : GuiDelete(1, sel, cf)
    \/ \E cf \in {"DELETE ALL", ""} : GuiReset(1, cf)
    \/ \E outcome \in ProcessOutcomes : ConnectReturn(1, outcome)

\* one manager of either front end over the store path
NextAll == Next \/ NextGui

SpecAll == Init /\ [][NextAll]_vars

\* construction and load over every state of the store path
NextLoad ==
    \/ Tick
    \/ \E k \in {"cli", "gui"} : Construct(1, k)
    \/ Load(1)

SpecLoad == InitLoad /\ [][NextLoad]_vars

----------------------------------------------------------------------------
(* SSHProfile.from_dict on its own *)

\* a record holding every key from_dict reads, and one it does not know
RecAllKeys == [id |-> "x1", name |-> "a", host |-> "h", username |-> "u",
               port |-> 2222, private_key_path |-> "k", jump_host |-> "j",
               description |-> "d", created_at |-> "t0", last_used |-> "t0",
               tags |-> <<"w">>, use_count |-> 1, color |-> "red"]

OptionalKeys == {"port", "private_key_path", "jump_host", "description",
                 "created_at", "last_used", "tags", "use_count"}

\* the record r cut down to the keys in S
Restrict(r, S) == [f \in S |-> r[f]]

\* records handed to from_dict: the required keys with up to two, or all
\* but up to two, of the other keys, and records lacking required keys
FromDictInputs ==
    {Restrict(RecAllKeys, S) :
        S \in {T \in SUBSET DOMAIN RecAllKeys :
                  \/ /\ RequiredKeys \subseteq T
                     /\ \/ Cardinality(T \ RequiredKeys) <= 2
                        \/ Cardinality(DOMAIN RecAllKeys \ T) <= 2
                  \/ T \subseteq RequiredKeys
                  \/ OptionalKeys \subseteq T}}

\* SSHProfile.from_dict(data) called in front end k
FromDict(k, data) ==
    /\ LET r == FromDictCall(k, data, now)
       IN  last' = Obs("from_dict", 0, None, FALSE,
                       IF r.raised = None THEN "profile" ELSE "raise",
                       r.raised, <<>>, None, NoSuggest)
                   @@ [k |-> k, data |-> data, out |-> r.profile]
    /\ UNCHANGED <<store, profiles, kind, pc, child, now, nextId>>

NextFromDict ==
    \/ Tick
    \/ \E k \in {"cli", "gui"}, data \in FromDictInputs : FromDict(k, data)

InitFromDict == InitWith({Absent("rw")})

SpecFromDict == InitFromDict /\ [][NextFromDict]_vars

----------------------------------------------------------------------------
(* SSHProfile.generate_ssh_command on its own *)

CmdPorts == {22, 2222, 1}
CmdKeys == {None, "", "k"}
CmdJumps == {None, "", "j"}

\* profiles made by the constructor at clock value t
NewProfiles(t) ==
    {SSHProfile(k, "x1", t, "a", "h", "u", port, key, jump, desc, <<"w">>) :
        k \in {"cli", "gui"}, port \in CmdPorts, key \in CmdKeys,
        jump \in CmdJumps, desc \in {None, "d"}}

\* profiles made by from_dict at clock value t
LoadedProfiles(t) ==
    {from_dict(k, data, t) :
        k \in {"cli", "gui"},
        data \in {r \in FromDictInputs : RequiredKeys \subseteq DOMAIN r}}

\* answers to the prompts of edit_profile_interactive that bear on the command
CmdEditForms ==
    {[EditKeep EXCEPT !.port = "22"],
     [EditKeep EXCEPT !.port = "2222", !.key = "k2"],
     [EditKeep EXCEPT !.port = "x", !.jump = "j2", !.desc = "e"]}

\* profiles of the menu front end after an edit
EditedProfiles(t) ==
    {EditFields(p, f) :
        p \in {q \in NewProfiles(t) : "tags" \in DOMAIN q}, f \in CmdEditForms}

\* profile.generate_ssh_command() on a profile that came about in the way how
BuildCommand(how, p) ==
    /\ last' = Obs("command", 0, p.name, FALSE, "None", None, <<>>,
                   generate_ssh_command(p), NoSuggest)
                @@ [how |-> how, p |-> p]
    /\ UNCHANGED <<store, profiles, kind, pc, child, now, nextId>>

NextCommand ==
    \/ Tick
    \/ \E p \in NewProfiles(now) : BuildCommand("new", p)
    \/ \E p \in LoadedProfiles(now) : BuildCommand("loaded", p)
    \/ \E p \in EditedProfiles(now) : BuildCommand("edited", p)

SpecCommand == InitFromDict /\ [][NextCommand]_vars

----------------------------------------------------------------------------
(* Two managers on one store path *)

\* two SSHManager objects, each as its own process would hold it, whose
\* operations interleave
NextTwo ==
    \/ \E m \in Managers : kind[m] \in {"none", "cli"} /\ Construct(m, "cli")
    \/ \E m \in Managers : Load(m)
    \/ \E m \in Managers, name \in Names : AddProfile(m, name, ArgDefault)
    \/ \E m \in Managers, name \in Names : RemoveProfile(m, name)
    \/ \E m \in Managers, name \in Names : Connect(m, name, FALSE)
    \/ \E m \in Managers : ConnectReturn(m, "exit0")

SpecTwo == Init /\ [][NextTwo]_vars

----------------------------------------------------------------------------
(* Search *)

\* variant of search_profiles: the query is compared as typed
search_profiles_as_typed(d, query) ==
    LET results == SelectSeq(Values(d),
                             LAMBDA p : \/ IsSubstr(query, Lower(p.name))
                                        \/ IsSubstr(query, Lower(p.host))
                                        \/ IsSubstr(query, Lower(p.username)))
    IN  [results |-> results,
         trace |-> IF results = <<>> THEN <<"print:no_profiles_found">>
                   ELSE <<"print:found">>]

\* SSHManager.search_profiles(query): the list results and what is printed
search_profiles(d, query) ==
    LET query_lower == Lower(query)
        results == SelectSeq(Values(d),
                             LAMBDA p : \/ IsSubstr(query_lower, Lower(p.name))
                                        \/ IsSubstr(query_lower, Lower(p.host))
                                        \/ IsSubstr(query_lower, Lower(p.username)))
    IN  [results |-> results,
         trace |-> IF results = <<>> THEN <<"print:no_profiles_found">>
                   ELSE <<"print:found">>]

SearchProfiles(m, query) ==
    /\ kind[m] = "cli"
    /\ pc[m] = "idle"
    /\ LET r == search_profiles(profiles[m], query)
       IN  last' = Obs("search", m, None, FALSE, "None", None, r.trace, None,
                       NoSuggest)
                   @@ [query |-> query, results |-> r.results]
    /\ UNCHANGED <<store, profiles, kind, pc, child, now, nextId>>

\* the list results built by search_interactive for the stripped query
search_interactive(d, query) ==
    LET query_lower == Lower(query)
    IN  SelectSeq(Values(d),
                  LAMBDA p : \/ IsSubstr(query_lower, Lower(p.name))
                             \/ IsSubstr(query_lower, Lower(p.host))
                             \/ IsSubstr(query_lower, Lower(p.username))
                             \/ IsSubstr(query_lower, Lower(p.description))
                             \/ \E i \in DOMAIN p.tags :
                                   IsSubstr(query_lower, Lower(p.tags[i])))

\* search_interactive, answered with the query typed, then sel (a number of
\* the result list, or anything else to return) and then choice
GuiSearch(m, typed, sel, choice) ==
    /\ kind[m] = "gui"
    /\ pc[m] = "idle"
    /\ LET query == Strip(typed)
           results == search_interactive(profiles[m], query)
           n == ParseInt(sel)
           seen(tr, res) == Obs("gui_search", m, None, FALSE, "None", None, tr,
                                None, NoSuggest)
                            @@ [query |-> typed, results |-> res]
       IN  IF query = ""
           THEN /\ last' = seen(<<>>, <<>>)
                /\ UNCHANGED <<store, profiles, pc, child>>
           ELSE IF results = <<>>
           THEN /\ last' = seen(<<"print:no_profiles_found">>, results)
                /\ UNCHANGED <<store, profiles, pc, child>>
           ELSE IF ~(n.ok /\ 1 <= n.val /\ n.val <= Len(results))
           THEN /\ last' = seen(<<"print:found">>, results)
                /\ UNCHANGED <<store, profiles, pc, child>>
           ELSE LET name == results[n.val].name
                    r == connect_to_profile(profiles[m], store, name, choice, now)
                IN  /\ CanConnect(profiles[m], name, choice)
                    /\ profiles' = [profiles EXCEPT ![m] = r.profiles]
                    /\ store' = r.store
                    /\ pc' = [pc EXCEPT ![m] = IF r.running THEN "running" ELSE "idle"]
                    /\ child' = [child EXCEPT ![m] = IF r.running THEN Split(r.cmd)
                                                     ELSE <<>>]
                    /\ last' = Obs("gui_search", m, name, choice # "c",
                                   IF r.raised # None THEN "raise"
                                   ELSE IF r.running THEN "pending" ELSE "None",
                                   r.raised, <<"print:found">> \o r.trace, r.cmd,
                                   NoSuggest)
                               @@ [query |-> typed, results |-> results]
    /\ UNCHANGED <<kind, now, nextId>>

\* queries typed: matching names, only descriptions, only a tag, nothing,
\* and empty or blank ones
Queries == {"A", "b", "SSH", "W", "zz", "", " "}

\* a manager of either front end that adds profiles and searches
NextSearch ==
    \/ \E k \in {"cli", "gui"} : kind[1] \in {"none", k} /\ Construct(1, k)
    \/ \E name \in Names, a \in AddArgs : AddProfile(1, name, a)
    \/ \E name \in Names : GuiAdd(1, name, FormGood, "n", "")
    \/ \E query \in Queries : SearchProfiles(1, query)
    \/ \E query \in Queries, sel \in {"", "1"}, ch \in {"c", "r"} :
          GuiSearch(1, query, sel, ch)
    \/ ConnectReturn(1, "exit0")

SpecSearch == Init /\ [][NextSearch]_vars

----------------------------------------------------------------------------
(* Suggestions after a connect that finds nothing *)

\* names asked for that no profile has: in another case, longer than a
\* profile's name, part of one name only, unlike any, empty
SuggestQueries == {"A", "abc", "B", "zz", ""}

NextSuggest ==
    \/ kind[1] \in {"none", "cli"} /\ Construct(1, "cli")
    \/ \E name \in Names : AddProfile(1, name, ArgDefault)
    \/ \E name \in Names : RemoveProfile(1, name)
    \/ \E name \in SuggestQueries, dry \in BOOLEAN : Connect(1, name, dry)

SpecSuggest == Init /\ [][NextSuggest]_vars

----------------------------------------------------------------------------
(* Statistics *)

RECURSIVE CountPorts(_, _, _)
\* the loop "ports[profile.port] = ports.get(profile.port, 0) + 1" over the
\* profiles ps from position i on, ports being the dict built so far
CountPorts(ps, i, ports) ==
    IF i > Len(ps) THEN ports
    ELSE LET n == IF HasKey(ports, ps[i].port) THEN DictGet(ports, ps[i].port)
                  ELSE 0
         IN  CountPorts(ps, i + 1, DictSet(ports, ps[i].port, n + 1))

\* the profiles of ps for which the attribute f is truthy
CountTruthy(ps, f) == Cardinality({i \in DOMAIN ps : Truthy(ps[i][f])})

\* variant of MaxItem: the last of the items with the greatest value
MaxItem_last(items) ==
    LET i == CHOOSE h \in DOMAIN items :
                 /\ \A j \in DOMAIN items : items[j].val <= items[h].val
                 /\ \A j \in DOMAIN items : j > h => items[j].val < items[h].val
    IN  items[i]

\* max(ports.items(), key=lambda x: x[1]): the first of the items with the
\* greatest value
MaxItem(items) ==
    LET i == CHOOSE h \in DOMAIN items :
                 /\ \A j \in DOMAIN items : items[j].val <= items[h].val
                 /\ \A j \in DOMAIN items : j < h => items[j].val < items[h].val
    IN  items[i]

\* stats(): the numbers it prints (shown FALSE when it prints that there is
\* nothing to analyse)
stats(d) ==
    LET ps == Values(d)
        ports == CountPorts(ps, 1, <<>>)
    IN  IF Len(d) = 0
        THEN [shown |-> FALSE, total |-> 0, with_keys |-> 0, with_jump |-> 0,
              ports |-> <<>>, most_common_port |-> 22,
              trace |-> <<"print:no_profiles_to_analyze">>]
        ELSE [shown |-> TRUE, total |-> Len(d),
              with_keys |-> CountTruthy(ps, "private_key_path"),
              with_jump |-> CountTruthy(ps, "jump_host"),
              ports |-> ports,
              most_common_port |-> IF ports # <<>> THEN MaxItem(ports).key ELSE 22,
              trace |-> <<"print:statistics">>]

Stats(m) ==
    /\ kind[m] = "cli"
    /\ pc[m] = "idle"
    /\ LET r == stats(profiles[m])
       IN  last' = Obs("stats", m, None, FALSE, "None", None, r.trace, None,
                       NoSuggest)
                   @@ [stats |-> r]
    /\ UNCHANGED <<store, profiles, kind, pc, child, now, nextId>>

\* names and arguments of the profiles counted
StatsNames == {"a", "Ab", "c"}
ArgOther == [host |-> "h", username |-> "u", port |-> 1, key |-> "",
             jump |-> "j", desc |-> None]
StatsArgs == {ArgDefault, ArgFull, ArgOther}

NextStats ==
    \/ kind[1] \in {"none", "cli"} /\ Construct(1, "cli")
    \/ \E name \in StatsNames, a \in StatsArgs : AddProfile(1, name, a)
    \/ \E name \in StatsNames : RemoveProfile(1, name)
    \/ Stats(1)

SpecStats == Init /\ [][NextStats]_vars

----------------------------------------------------------------------------
(* The menu's edit on its own *)

\* answers to the prompts of edit_profile_interactive: nothing, a name that
\* may be taken, a free name with a new host and port, and other fields
\* with a port that is no number
RenameForms ==
    {EditKeep,
     [EditKeep EXCEPT !.name = "Ab"],
     [EditKeep EXCEPT !.name = "c", !.host = "H", !.port = "2222"],
     [EditKeep EXCEPT !.username = "v", !.port = "x", !.key = "k2", !.desc = "e"]}

NextEdit ==
    \/ kind[1] \in {"none", "gui"} /\ Construct(1, "gui")
    \/ \E name \in Names : GuiAdd(1, name, FormGood, "n", "")
    \/ \E sel \in Selections, f \in RenameForms : GuiEdit(1, sel, f)

SpecEdit == Init /\ [][NextEdit]_vars

----------------------------------------------------------------------------
(* SSHProfile(...) on its own *)

\* SSHProfile(name, a.host, a.username, a.port, a.key, a.jump, a.desc) called
\* in front end k
NewProfile(k, name, a) ==
    /\ nextId <= MaxAdds
    /\ nextId' = nextId + 1
    /\ last' = Obs("new", 0, name, FALSE, "profile", None, <<>>, None, NoSuggest)
                @@ [k |-> k, args |-> a,
                    out |-> SSHProfile(k, Uuid4(nextId), now, name, a.host,
                                       a.username, a.port, a.key, a.jump, a.desc,
                                       <<>>)]
    /\ UNCHANGED <<store, profiles, kind, pc, child, now>>

\* profiles made by the constructor and by from_dict
NextNew ==
    \/ Tick
    \/ \E k \in {"cli", "gui"}, name \in Names, a \in AddArgs : NewProfile(k, name, a)
    \/ \E k \in {"cli", "gui"}, data \in FromDictInputs : FromDict(k, data)

SpecNew == InitFromDict /\ [][NextNew]_vars

----------------------------------------------------------------------------
(* One SSHManager kept for a whole sequence of commands *)

\* main() builds a manager per command; here one manager, constructed once,
\* is given the commands of main() one after the other
NextLong ==
    \/ Tick
    \/ kind[1] = "none" /\ Construct(1, "cli")
    \/ \E name \in Names, a \in {ArgDefault, ArgFull} : AddProfile(1, name, a)
    \/ \E name \in Names : RemoveProfile(1, name)
    \/ \E name \in Names, dry \in BOOLEAN : Connect(1, name, dry)
    \/ \E outcome \in ProcessOutcomes : ConnectReturn(1, outcome)
    \/ \E query \in Queries : SearchProfiles(1, query)
    \/ Stats(1)

SpecLong == Init /\ [][NextLong]_vars

----------------------------------------------------------------------------
(* One SSHManager process on any document: construct, add, connect *)

NextKeep ==
    \/ kind[1] \in {"none", "cli"} /\ Construct(1, "cli")
    \/ \E name \in Names, a \in {ArgDefault, ArgFull} : AddProfile(1, name, a)
    \/ \E name \in Names, dry \in BOOLEAN : Connect(1, name, dry)
    \/ ConnectReturn(1, "exit0")

SpecKeep == InitLoad /\ [][NextKeep]_vars

----------------------------------------------------------------------------
(* Both front ends on the default store path *)

\* manager 1 is the menu (SSHManagerGUI), manager 2 the command line
\* (SSHManager); both default to ~/.config/ssh-manager/profiles.json
NextShared ==
    \/ kind[1] \in {"none", "gui"} /\ Construct(1, "gui")
    \/ \E name \in Names, after \in {<<"n", "">>, <<"y", "c">>} :
          GuiAdd(1, name, FormGood, after[1], after[2])
    \/ \E sel \in {"1", "2"} : GuiConnect(1, sel, "c")
    \/ kind[2] \in {"none", "cli"} /\ Construct(2, "cli")
    \/ \E name \in Names : AddProfile(2, name, ArgDefault)
    \/ \E name \in Names : RemoveProfile(2, name)
    \/ \E name \in Names : Connect(2, name, FALSE)
    \/ \E m \in Managers : ConnectReturn(m, "exit0")

SpecShared == Init /\ [][NextShared]_vars

----------------------------------------------------------------------------
(* The menu on its own: every path into connect_to_profile *)

NextMenu ==
    \/ kind[1] \in {"none", "gui"} /\ Construct(1, "gui")
    \/ Load(1)
    \/ \E name \in Names, after \in AfterAdd :
          GuiAdd(1, name, FormGood, after[1], after[2])
    \/ \E sel \in Selections, ch \in {"c", "s", "r"} : GuiConnect(1, sel, ch)
    \/ \E sel \in {"1", "2"}, ch \in {"c", "s", "r"} : GuiSearch(1, "A", sel, ch)
    \/ \E sel \in {"1", "2"} : GuiEdit(1, sel, [EditKeep EXCEPT !.name = "c"])
    \/ \E sel \in {"1", "2"} : GuiDelete(1, sel, "yes")
    \/ GuiReset(1, "DELETE ALL")
    \/ \E outcome \in ProcessOutcomes : ConnectReturn(1, outcome)

SpecMenu == Init /\ [][NextMenu]_vars

----------------------------------------------------------------------------
(* Properties *)

\* the names of the records of a stored list are pairwise distinct
DistinctNames(recs) ==
    \A i, j \in DOMAIN recs : recs[i].name = recs[j].name => i = j

\* the record rec holds exactly the attributes of the profile p
SameRecord(rec, p) ==
    /\ DOMAIN rec = DOMAIN p
    /\ \A f \in DOMAIN p : rec[f] = p[f]

\* the stored document lists exactly the profiles of the dict d, in order
DocumentIs(st, d) ==
    /\ st.exists
    /\ st.content.top = "object"
    /\ Len(st.content.profiles) = Len(d)
    /\ \A i \in DOMAIN d :
          /\ st.content.profiles[i].name = d[i].key
          /\ SameRecord(st.content.profiles[i], d[i].val)

\* C1: every registry holds at most one profile per name, every entry is
\* stored under the current name of its profile, and a document just
\* written by save holds no two records of one name.
C1_UniqueNames ==
    /\ \A m \in Managers :
          /\ \A i, j \in DOMAIN profiles[m] :
                profiles[m][i].key = profiles[m][j].key => i = j
          /\ \A i \in DOMAIN profiles[m] :
                profiles[m][i].key = profiles[m][i].val.name
    /\ "save" \in Events(last.trace) =>
          /\ store.exists
          /\ store.content.top = "object"
          /\ DistinctNames(store.content.profiles)

\* a rename in the menu's edit has been saved: the profile chosen is no
\* longer found under its old name
C1_Witness ==
    /\ last.op = "gui_edit"
    /\ "save" \in Events(last.trace)
    /\ profiles[1] # <<>>
    /\ last.name \notin Keys(profiles[1])

\* C2: add with a name already in the registry returns False, raises
\* nothing, keeps every registry and the stored file as they were and does
\* not save.
C2_DuplicateAddRejected ==
    [][(last'.op = "add" /\ last'.name \in Keys(profiles[last'.m]))
          => /\ last'.result = "False"
             /\ last'.raised = None
             /\ "save" \notin Events(last'.trace)
             /\ profiles' = profiles
             /\ store' = store]_vars

\* a second add of a name was rejected
C2_Witness ==
    /\ last.op = "add"
    /\ last.result = "False"
    /\ last.name \in Keys(profiles[1])

\* C3: after an add, a remove or a non-dry-run connect that went through
\* (no exception from the write), the stored document lists exactly the
\* profiles of the manager's registry: same names, order and field values.
C3_SavedMatchesRegistry ==
    (\/ last.op \in {"add", "remove"} /\ last.result = "True"
     \/ last.op = "connect" /\ ~last.dry /\ last.result = "pending"
     \/ last.op = "connect_end")
        => DocumentIs(store, profiles[last.m])

\* a connect has stamped and saved a registry of two profiles
C3_Witness ==
    /\ last.op = "connect"
    /\ last.result = "pending"
    /\ Len(profiles[1]) = 2
    /\ DictGet(profiles[1], last.name).last_used # None

\* the entries of the stored list are objects, one of them lacking a
\* required key
HasMalformedRecord(st) ==
    /\ st.exists
    /\ st.mode # "none"
    /\ st.content.top = "object"
    /\ \A i \in DOMAIN st.content.profiles : IsObject(st.content.profiles[i])
    /\ \E i \in DOMAIN st.content.profiles :
          ~(RequiredKeys \subseteq DOMAIN st.content.profiles[i])

\* C4: constructing a manager on a document with a record that lacks a
\* required key, wherever it stands in the list, reports the load error and
\* leaves the registry empty.
C4_MalformedRecordLoadsNothing ==
    (last.op = "construct" /\ HasMalformedRecord(store))
        => /\ last.raised = None
           /\ "print:load_error" \in Events(last.trace)
           /\ profiles[last.m] = <<>>

\* C5: constructing a manager completes without an exception, whatever the
\* state of the store path, and leaves a manager with a valid registry.
C5_ConstructNeverRaises ==
    last.op = "construct"
        => /\ last.raised = None
           /\ kind[last.m] # "none"
           /\ \A i \in DOMAIN profiles[last.m] :
                 profiles[last.m][i].key = profiles[last.m][i].val.name

\* C6: load on a path that does not exist raises nothing and reports no
\* error; load on a (readable) file that is not valid JSON raises nothing
\* and reports a load error; a manager constructed on either has an empty
\* registry.
C6_LoadAbsentOrInvalid ==
    /\ (last.op \in {"construct", "load"} /\ ~store.exists)
          => /\ last.raised = None
             /\ "print:load_error" \notin Events(last.trace)
    /\ (last.op \in {"construct", "load"} /\ store.exists /\ store.mode # "none"
            /\ store.content.top = "invalid")
          => /\ last.raised = None
             /\ "print:load_error" \in Events(last.trace)
    /\ (last.op = "construct"
            /\ (~store.exists \/ (store.mode # "none" /\ store.content.top = "invalid")))
          => /\ kind[last.m] # "none"
             /\ profiles[last.m] = <<>>

\* a manager was constructed on a file that is not valid JSON
C6_Witness ==
    /\ last.op = "construct"
    /\ store.exists
    /\ store.mode # "none"
    /\ store.content.top = "invalid"
    /\ kind[1] = "cli"

\* C7: connect(name, dry_run=True) on an existing profile returns True,
\* changes no profile, does not write the store, starts no process and
\* shows the command the builder yields for that profile.
C7_DryRunNoEffect ==
    [][(last'.op = "connect" /\ last'.dry /\ last'.name \in Keys(profiles[last'.m]))
          => /\ last'.result = "True"
             /\ profiles' = profiles
             /\ store' = store
             /\ pc' = pc
             /\ child' = child
             /\ Events(last'.trace) \cap {"stamp", "save", "run"} = {}
             /\ last'.cmd = generate_ssh_command(
                                DictGet(profiles[last'.m], last'.name))]_vars

\* a dry run on a profile that an earlier connect has stamped
C7_Witness ==
    /\ last.op = "connect"
    /\ last.dry
    /\ last.result = "True"
    /\ DictGet(profiles[1], last.name).last_used # None

\* the positions of the event e in the trace tr
Positions(tr, e) == {i \in DOMAIN tr : tr[i] = e}

\* C8: a non-dry-run connect on an existing profile sets last_used to the
\* current time (and adds 1 to use_count in the menu front end), changes
\* nothing else, writes the store and only then starts the process, once;
\* the return of the process changes neither registry nor store.
C8_ConnectStampsSavesRuns ==
    [][/\ (last'.op = "connect" /\ ~last'.dry
             /\ last'.name \in Keys(profiles[last'.m]))
          => LET m == last'.m
                 p == DictGet(profiles[m], last'.name)
                 q == DictGet(profiles'[m], last'.name)
             IN  /\ q = [p EXCEPT !.last_used = IsoFormat(now)]
                 /\ \A i \in DOMAIN profiles[m] :
                       profiles[m][i].key # last'.name
                          => profiles'[m][i] = profiles[m][i]
                 /\ DocumentIs(store', profiles'[m])
                 /\ Cardinality(Positions(last'.trace, "run")) = 1
                 /\ \A i \in Positions(last'.trace, "run") :
                       \E j \in Positions(last'.trace, "save") :
                          \E h \in Positions(last'.trace, "stamp") : h < j /\ j < i
                 /\ pc'[m] = "running"
                 /\ child'[m] = Split(generate_ssh_command(p))
       /\ last'.op = "connect_end" => profiles' = profiles /\ store' = store]_vars

\* C9: when subprocess.run raises inside connect, a KeyboardInterrupt is
\* reported as interrupted and any other exception as connection failed;
\* nothing escapes connect and the manager lives on.
C9_ProcessFailureCaught ==
    last.op = "connect_end"
        => /\ last.raised = None
           /\ last.result = "None"
           /\ kind[last.m] # "none"
           /\ pc[last.m] = "idle"
           /\ last.trace[1] = "KeyboardInterrupt"
                 => /\ "print:interrupted" \in Events(last.trace)
                    /\ "print:connection_failed" \notin Events(last.trace)
           /\ last.trace[1] \in {"TimeoutExpired", "CalledProcessError", "OSError"}
                 => /\ "print:connection_failed" \in Events(last.trace)
                    /\ "print:interrupted" \notin Events(last.trace)

\* the user interrupted a running connection
C9_Witness ==
    /\ last.op = "connect_end"
    /\ last.trace[1] = "KeyboardInterrupt"
    /\ kind[1] = "cli"

\* C10: connect on a name that is not in the registry, dry run or not,
\* returns False, hands the name to suggest_similar, changes no profile,
\* does not write the store and starts no process.
C10_ConnectNotFound ==
    [][(last'.op = "connect" /\ last'.name \notin Keys(profiles[last'.m]))
          => /\ last'.result = "False"
             /\ last'.raised = None
             /\ last'.suggest.called
             /\ last'.suggest.arg = last'.name
             /\ Events(last'.trace) \cap {"stamp", "save", "run"} = {}
             /\ profiles' = profiles
             /\ store' = store
             /\ pc' = pc
             /\ child' = child]_vars

\* connect on the empty name was refused although profiles exist
C10_Witness ==
    /\ last.op = "connect"
    /\ last.name = ""
    /\ ~last.dry
    /\ last.result = "False"
    /\ last.suggest.called
    /\ profiles[1] # <<>>

\* C11: remove on a name that is not in the registry returns False with the
\* not-found message, raises nothing, does not save and leaves every
\* registry and the stored file as they were.
C11_RemoveNotFound ==
    [][(last'.op = "remove" /\ last'.name \notin Keys(profiles[last'.m]))
          => /\ last'.result = "False"
             /\ last'.raised = None
             /\ "print:not_found" \in Events(last'.trace)
             /\ "save" \notin Events(last'.trace)
             /\ profiles' = profiles
             /\ store' = store]_vars

\* remove of an unknown name was refused on a registry that holds a
\* profile, before any file was written
C11_Witness ==
    /\ last.op = "remove"
    /\ last.result = "False"
    /\ profiles[1] # <<>>
    /\ last.name \notin Keys(profiles[1])

\* the profiles a manager of front end k holds right after being constructed
\* on the store file st at clock value t
FreshlyLoaded(k, st, t) == load_profiles(k, <<>>, st, t).profiles

\* C12: remove on a name that is in the registry returns True, takes exactly
\* that entry out of the registry (the others stay, in their order) and
\* persists: a manager freshly constructed on the store path afterwards does
\* not hold the name.
C12_RemoveDeletesAndPersists ==
    [][(last'.op = "remove" /\ last'.name \in Keys(profiles[last'.m]))
          => LET m == last'.m
             IN  /\ last'.result = "True"
                 /\ last'.name \notin Keys(profiles'[m])
                 /\ profiles'[m] = SelectSeq(profiles[m],
                                             LAMBDA e : e.key # last'.name)
                 /\ \A k \in {"cli", "gui"} :
                       last'.name \notin Keys(FreshlyLoaded(k, store', now'))]_vars

\* the description a new profile of host must carry when desc was supplied
DescriptionFor(host, desc) ==
    IF desc = None \/ desc = "" THEN "SSH connection to " \o host ELSE desc

\* C13: after a successful add the profile is found under its name with the
\* supplied host, username, port, key path, jump host and description, a
\* missing or empty description being "SSH connection to {host}", the
\* defaults of the signature (port 22, no key path, no jump host) standing
\* for omitted arguments, and last_used null; the menu's add (answered
\* without "connect now") does the same, an empty answer standing for an
\* omitted argument, with use_count 0.
C13_AddStoresSuppliedFields ==
    [][/\ \A name \in Names, a \in AddArgs :
             (AddProfile(1, name, a) /\ last'.result = "True")
                => /\ HasKey(profiles'[1], name)
                   /\ LET p == DictGet(profiles'[1], name)
                      IN  /\ p.name = name
                          /\ p.host = a.host
                          /\ p.username = a.username
                          /\ p.port = a.port
                          /\ p.private_key_path = a.key
                          /\ p.jump_host = a.jump
                          /\ p.description = DescriptionFor(a.host, a.desc)
                          /\ p.last_used = None
       /\ \A name \in Names, f \in AddForms :
             (GuiAdd(1, name, f, "n", "") /\ "save" \in Events(last'.trace))
                => /\ HasKey(profiles'[1], name)
                   /\ LET p == DictGet(profiles'[1], name)
                      IN  /\ p.name = name
                          /\ p.host = f.host
                          /\ p.username = f.username
                          /\ p.port = IF f.port = "" THEN 22 ELSE ParseInt(f.port).val
                          /\ p.private_key_path = IF f.key = "" THEN None ELSE f.key
                          /\ p.jump_host = IF f.jump = "" THEN None ELSE f.jump
                          /\ p.description = DescriptionFor(f.host, f.desc)
                          /\ p.last_used = None
                          /\ p.use_count = 0]_vars

\* an add without description, port, key path and jump host has succeeded
\* next to another profile
C13_Witness ==
    /\ last.op = "add"
    /\ last.result = "True"
    /\ Len(profiles[1]) = 2
    /\ DictGet(profiles[1], last.name).description = "SSH connection to h"
    /\ DictGet(profiles[1], last.name).port = 22

\* C14: every profile held by a manager is reproduced by
\* from_dict(to_dict(p)) of its front end, whenever the conversion is made:
\* same id, name, host, username, port, private_key_path, jump_host,
\* description, created_at and last_used (and tags and use_count in
\* ssh_gui.py), and no other attribute.
C14_RoundTrip ==
    \A m \in Managers : \A i \in DOMAIN profiles[m] : \A t \in 1..(MaxClock + 1) :
        LET p == profiles[m][i].val
            q == from_dict(kind[m], to_dict(kind[m], p), t)
        IN  /\ DOMAIN q = DOMAIN p
            /\ \A f \in DOMAIN p : q[f] = p[f]

\* the menu front end holds a tagged profile that has been connected to,
\* and time has passed since it was created
C14_Witness ==
    /\ kind[1] = "gui"
    /\ \E i \in DOMAIN profiles[1] :
           /\ profiles[1][i].val.last_used # None
           /\ profiles[1][i].val.use_count = 1
           /\ profiles[1][i].val.tags # <<>>
           /\ profiles[1][i].val.created_at # IsoFormat(now)

\* the attributes of a profile object of front end k
ProfileAttrs(k) ==
    {"id", "name", "host", "username", "port", "private_key_path", "jump_host",
     "description", "created_at", "last_used"}
    \cup (IF k = "gui" THEN {"tags", "use_count"} ELSE {})

WordsAt(ws, I) == {ws[i] : i \in I \cap DOMAIN ws}

\* C16: the command built for a profile is "ssh {username}@{host}", then
\* " -p {port}" exactly when the port is not 22, then " -i {key}" exactly
\* when the key path is set and non-empty, then " -J {jump}" exactly when
\* the jump host is set and non-empty, and nothing else; a port of 22 gives
\* no -p, whether it is the constructor's or from_dict's default, given
\* explicitly or entered in an edit.
C16_CommandBuilder ==
    last.op = "command"
        => LET p == last.p
               hasKey == p.private_key_path # None /\ p.private_key_path # ""
               hasJump == p.jump_host # None /\ p.jump_host # ""
               ws == Split(last.cmd)
           IN  /\ last.cmd = "ssh " \o p.username \o "@" \o p.host
                                \o (IF p.port # 22
                                    THEN " -p " \o ToString(p.port) ELSE "")
                                \o (IF hasKey
                                    THEN " -i " \o p.private_key_path ELSE "")
                                \o (IF hasJump
                                    THEN " -J " \o p.jump_host ELSE "")
               /\ p.port = 22 => "-p" \notin WordsAt(ws, 1..Len(ws))
               /\ Len(ws) = 2 + (IF p.port # 22 THEN 2 ELSE 0)
                               + (IF hasKey THEN 2 ELSE 0)
                               + (IF hasJump THEN 2 ELSE 0)
               /\ \A i, j \in DOMAIN ws :
                     /\ (ws[i] = "-p" /\ ws[j] \in {"-i", "-J"}) => i < j
                     /\ (ws[i] = "-i" /\ ws[j] = "-J") => i < j

\* a command with -i and -J but no -p was built for a profile whose port an
\* edit has set to 22
C16_Witness ==
    /\ last.op = "command"
    /\ last.how = "edited"
    /\ last.p.port = 22
    /\ last.cmd = "ssh u@h -i k -J j"

\* C17: with two managers on one store path, whatever the order of their
\* operations, the stored document lists exactly the registry of the
\* manager that saved most recently; a save raises nothing and keeps
\* nothing of what another manager had saved before.
C17_LastWriterWins ==
    /\ last.writer # 0 => DocumentIs(store, profiles[last.writer])
    /\ "save" \in Events(last.trace) => last.raised = None /\ last.writer = last.m

\* manager 1 has just added a profile and saved, and the profile manager 2
\* added and saved after manager 1 had loaded is gone from the document
C17_Witness ==
    /\ last.op = "add"
    /\ last.m = 1
    /\ last.writer = 1
    /\ "Ab" \in Keys(profiles[2])
    /\ "Ab" \notin Keys(profiles[1])
    /\ \A i \in DOMAIN store.content.profiles :
           store.content.profiles[i].name # "Ab"

\* the ids of the profiles of the dict d
IdsOf(d) == {d[i].val.id : i \in DOMAIN d}

\* the ids handed out by the constructor for the profiles made by add so far
AddedIds == {Uuid4(n) : n \in 1..(nextId - 1)}

\* the ids of the records the store file held at the start
StoredIds == {RecFull.id, RecMin.id}

\* C18: a profile made by add gets an id that no profile of the registry
\* and no record of the store has or ever had (every id seen so far being
\* one of an earlier add or of the initial file).  A step other than a load
\* leaves every profile made by add that is in the registry with its id
\* and created_at, under its name or, after a rename, under the new one,
\* unless the step removes it.  A load, by a new manager object or again by
\* the same, yields for every stored record of a profile made by add a
\* profile with the record's name, id and created_at, and a reload leaves
\* the profiles whose names the file does not hold as they are.
C18_IdAndCreatedAtStable ==
    [][/\ \A m \in Managers : IdsOf(profiles[m]) \subseteq AddedIds \cup StoredIds
       /\ nextId' # nextId
             => LET new == DictGet(profiles'[last'.m], last'.name).id
                IN  /\ new \notin AddedIds \cup StoredIds
                    /\ \A m \in Managers : new \notin IdsOf(profiles[m])
                    /\ Cardinality({i \in DOMAIN profiles'[last'.m] :
                                       profiles'[last'.m][i].val.id = new}) = 1
       /\ last'.op \notin {"load", "construct"}
             => \A m \in Managers : \A i \in DOMAIN profiles[m] :
                   LET p == profiles[m][i].val
                       d == profiles'[m]
                   IN  p.id \in AddedIds
                          => /\ \A j \in DOMAIN d :
                                   /\ d[j].key = p.name => d[j].val.id = p.id
                                   /\ d[j].val.id = p.id
                                         => d[j].val.created_at = p.created_at
                             /\ last'.op \notin {"remove", "gui_delete", "gui_reset"}
                                   => \E j \in DOMAIN d : d[j].val.id = p.id
       /\ (last'.op \in {"load", "construct"} /\ last'.raised = None)
             => LET d == profiles'[last'.m]
                    recs == store.content.profiles
                IN  /\ \A i \in DOMAIN recs :
                          recs[i].id \in AddedIds
                             => \E j \in DOMAIN d :
                                   /\ d[j].key = recs[i].name
                                   /\ d[j].val.id = recs[i].id
                                   /\ d[j].val.created_at = recs[i].created_at
                    /\ last'.op = "load"
                          => \A i \in DOMAIN profiles[last'.m] :
                                (\A h \in DOMAIN recs :
                                    recs[h].name # profiles[last'.m][i].key)
                                   => \E j \in DOMAIN d : d[j] = profiles[last'.m][i]]_vars

\* a profile made by add at an earlier time has been renamed in the menu
\* and still carries its id and created_at
C18_Witness ==
    /\ last.op = "gui_edit"
    /\ "save" \in Events(last.trace)
    /\ last.name \notin Keys(profiles[1])
    /\ \E i \in DOMAIN profiles[1] :
           /\ profiles[1][i].val.id \in AddedIds
           /\ profiles[1][i].val.created_at # IsoFormat(now)

\* C19: when the store file cannot be written, add_profile with a name that
\* is not in the registry raises nothing, and the new profile is in the
\* registry afterwards.
C19_AddSurvivesWriteFailure ==
    (last.op = "add" /\ store.mode # "rw" /\ last.result # "False")
        => /\ last.raised = None
           /\ last.name \in Keys(profiles[last.m])

\* the lower-cased query is part of the lower-cased name, host or username
\* of the profile p
MatchesBasic(query, p) ==
    \E f \in {"name", "host", "username"} : IsSubstr(Lower(query), Lower(p[f]))

\* ... or of its description or of one of its tags
MatchesAny(query, p) ==
    \/ MatchesBasic(query, p)
    \/ IsSubstr(Lower(query), Lower(p.description))
    \/ /\ "tags" \in DOMAIN p
       /\ \E i \in DOMAIN p.tags : IsSubstr(Lower(query), Lower(p.tags[i]))

\* C20 as stated: in either front end a search yields exactly the profiles
\* of the registry, in its order, for which the lower-cased query is part
\* of the lower-cased name, host, username, description or a tag, and an
\* empty result raises nothing.
C20_SearchAllFields ==
    [][last'.op \in {"search", "gui_search"}
          => /\ last'.results = SelectSeq(Values(profiles[last'.m]),
                                          LAMBDA p : MatchesAny(last'.query, p))
             /\ last'.results = <<>> => last'.raised = None]_vars

\* C20 as amended: search_profiles yields exactly the profiles, in registry
\* order, for which the lower-cased query is part of the lower-cased name,
\* host or username; search_interactive strips the query, yields nothing
\* for an empty one and otherwise exactly the profiles, in registry order,
\* for which it is part of the lower-cased name, host, username,
\* description or a tag; an empty result is reported and raises nothing.
C20_SearchPerFrontEnd ==
    [][/\ last'.op = "search"
             => /\ last'.results = SelectSeq(Values(profiles[last'.m]),
                                             LAMBDA p : MatchesBasic(last'.query, p))
                /\ last'.raised = None
                /\ last'.results = <<>>
                      => "print:no_profiles_found" \in Events(last'.trace)
       /\ last'.op = "gui_search"
             => IF Strip(last'.query) = ""
                THEN last'.results = <<>> /\ last'.trace = <<>>
                                         /\ last'.raised = None
                ELSE /\ last'.results
                          = SelectSeq(Values(profiles[last'.m]),
                                      LAMBDA p : MatchesAny(Strip(last'.query), p))
                     /\ last'.results = <<>>
                           => /\ last'.raised = None
                              /\ "print:no_profiles_found" \in Events(last'.trace)]_vars

\* a search in a registry of two profiles found the second one only, by
\* its name
C20_Witness ==
    /\ last.op = "search"
    /\ last.query = "b"
    /\ Len(profiles[1]) = 2
    /\ Len(last.results) = 1
    /\ last.results[1].name = "Ab"

\* one of the strings a and b, lower-cased, is part of the other
Similar(a, b) ==
    LET x == Lower(a)
        y == Lower(b)
    IN  \/ \E i \in 0..(Len(y) - Len(x)) : SubSeq(y, i + 1, i + Len(x)) = x
        \/ \E i \in 0..(Len(x) - Len(y)) : SubSeq(x, i + 1, i + Len(y)) = y

\* C21: the suggestions made for a name are exactly the names of the
\* registry that, lower-cased, contain the lower-cased name or are
\* contained in it, in the order of the registry; "Did you mean" is
\* printed when there is one and nothing is printed when there is none.
C21_SuggestSimilar ==
    [][(last'.op = "connect" /\ last'.suggest.called)
          => LET names == KeyList(profiles[last'.m])
                 given == last'.suggest.names
             IN  /\ given = SelectSeq(names, LAMBDA pn : Similar(last'.name, pn))
                 /\ given = <<>> <=> "print:did_you_mean" \notin Events(last'.trace)]_vars

\* for a name longer than both profile names, both were suggested, in the
\* order of the registry
C21_Witness ==
    /\ last.op = "connect"
    /\ last.name = "abc"
    /\ Len(profiles[1]) = 2
    /\ last.suggest.names = KeyList(profiles[1])

\* the number of profiles of the sequence ps with the port pt
WithPort(ps, pt) == Cardinality({i \in DOMAIN ps : ps[i].port = pt})

RECURSIVE SumVals(_, _)
\* the sum of the values of the items from position i on
SumVals(items, i) ==
    IF i > Len(items) THEN 0 ELSE items[i].val + SumVals(items, i + 1)

\* C22: stats on a registry that is not empty reports, for the registry as
\* it is at the call, the number of profiles, the number with a non-empty
\* key path, the number with a non-empty jump host, and as most common
\* port one that no port exceeds in number of profiles, namely, among such
\* ports, that of the profile registered earliest; the numbers per port
\* add up to the total.
C22_Stats ==
    (last.op = "stats" /\ profiles[last.m] # <<>>)
        => LET ps == Values(profiles[last.m])
               r == last.stats
               top(i) == \A j \in DOMAIN ps :
                            WithPort(ps, ps[j].port) <= WithPort(ps, ps[i].port)
           IN  /\ r.shown
               /\ r.total = Len(ps)
               /\ r.with_keys = Cardinality({i \in DOMAIN ps :
                                    ps[i].private_key_path \notin {None, ""}})
               /\ r.with_jump = Cardinality({i \in DOMAIN ps :
                                    ps[i].jump_host \notin {None, ""}})
               /\ \E i \in DOMAIN ps :
                     /\ top(i)
                     /\ \A j \in DOMAIN ps : top(j) => i <= j
                     /\ r.most_common_port = ps[i].port
               /\ \A h \in DOMAIN r.ports :
                     r.ports[h].val = WithPort(ps, r.ports[h].key)
               /\ SumVals(r.ports, 1) = r.total

\* stats of three profiles, the first alone on its port and the other two
\* sharing another port
C22_Witness ==
    /\ last.op = "stats"
    /\ Len(profiles[1]) = 3
    /\ profiles[1][1].val.port # profiles[1][2].val.port
    /\ profiles[1][2].val.port = profiles[1][3].val.port
    /\ last.stats.most_common_port = profiles[1][2].val.port

\* the number sel selects a profile of the list of manager 1
Selects(sel) ==
    /\ ParseInt(sel).ok
    /\ ParseInt(sel).val \in DOMAIN profiles[1]

\* the profile of manager 1 that the number sel selects
Selected(sel) == profiles[1][ParseInt(sel).val].val

\* the value the answer ans gives the attribute: the old one for an empty
\* answer
Answered(ans, old) == IF ans = "" THEN old ELSE ans

\* C23: in the menu's edit, a new name that another profile holds makes the
\* edit fail, registry and stored file staying exactly as they were; a new
\* name that is free takes the old key out of the registry and puts the
\* same profile (same id, the other fields as edited) under the new name:
\* as many profiles as before, none under the old name.
C23_Rename ==
    [][\A sel \in Selections, f \in RenameForms :
          (GuiEdit(1, sel, f) /\ Selects(sel)
              /\ f.name # "" /\ f.name # Selected(sel).name)
             => LET p == Selected(sel)
                IN  IF f.name \in Keys(profiles[1])
                    THEN /\ profiles' = profiles
                         /\ store' = store
                         /\ "print:name_exists" \in Events(last'.trace)
                         /\ "save" \notin Events(last'.trace)
                    ELSE /\ p.name \notin Keys(profiles'[1])
                         /\ f.name \in Keys(profiles'[1])
                         /\ Len(profiles'[1]) = Len(profiles[1])
                         /\ LET q == DictGet(profiles'[1], f.name)
                            IN  /\ q.id = p.id
                                /\ q.name = f.name
                                /\ q.host = Answered(f.host, p.host)
                                /\ q.username = Answered(f.username, p.username)
                                /\ q.port = IF f.port # "" /\ ParseInt(f.port).ok
                                            THEN ParseInt(f.port).val ELSE p.port
                                /\ q.private_key_path
                                      = Answered(f.key, p.private_key_path)
                                /\ q.jump_host = Answered(f.jump, p.jump_host)
                                /\ q.description = Answered(f.desc, p.description)
                                /\ q.tags = p.tags
                                /\ q.created_at = p.created_at
                                /\ q.last_used = p.last_used
                                /\ q.use_count = p.use_count
                         /\ \A i \in DOMAIN profiles[1] :
                               profiles[1][i].key # p.name
                                  => \E j \in DOMAIN profiles'[1] :
                                        profiles'[1][j] = profiles[1][i]]_vars

\* the first of two profiles has been renamed to a free name, with a new
\* host and port, and saved
C23_Witness ==
    /\ last.op = "gui_edit"
    /\ "save" \in Events(last.trace)
    /\ Len(profiles[1]) = 2
    /\ profiles[1][2].key = "c"
    /\ profiles[1][2].val.host = "H"
    /\ last.name \notin Keys(profiles[1])

\* C24: an edit that is not refused changes, of the profile chosen, only
\* the attributes for which a non-empty answer was given, leaves every
\* other profile as it was, and then persists the registry: it raises
\* nothing and the stored document lists the registry.
C24_EditFrame ==
    [][\A sel \in Selections, f \in RenameForms :
          (GuiEdit(1, sel, f) /\ Selects(sel)
              /\ ~(f.name # "" /\ f.name # Selected(sel).name
                      /\ f.name \in Keys(profiles[1])))
             => LET p == Selected(sel)
                    q == DictGet(profiles'[1], Answered(f.name, p.name))
                IN  /\ f.name = "" => q.name = p.name
                    /\ f.host = "" => q.host = p.host
                    /\ f.username = "" => q.username = p.username
                    /\ f.port = "" => q.port = p.port
                    /\ f.key = "" => q.private_key_path = p.private_key_path
                    /\ f.jump = "" => q.jump_host = p.jump_host
                    /\ f.desc = "" => q.description = p.description
                    /\ q.id = p.id /\ q.tags = p.tags
                    /\ q.created_at = p.created_at
                    /\ q.last_used = p.last_used /\ q.use_count = p.use_count
                    /\ \A i \in DOMAIN profiles[1] :
                          profiles[1][i].key # p.name
                             => \E j \in DOMAIN profiles'[1] :
                                   profiles'[1][j] = profiles[1][i]
                    /\ last'.raised = None
                    /\ DocumentIs(store', profiles'[1])]_vars

\* the profile of the last step was made without a description: by the
\* constructor given None, or by from_dict from a record with the required
\* keys and no 'description'
MadeWithoutDescription ==
    \/ last.op = "new" /\ last.args.desc = None
    \/ /\ last.op = "from_dict"
       /\ RequiredKeys \subseteq DOMAIN last.data
       /\ "description" \notin DOMAIN last.data

\* the host the profile of the last step was made for
HostGiven == IF last.op = "new" THEN last.args.host ELSE last.data.host

Commands == {"add", "remove", "connect", "search", "stats"}

\* C26: a sequence of add, remove, connect, search and stats commands gives
\* the same results and the same final registry whether each command runs on
\* a manager constructed for it or all run on one long-lived manager. Each
\* command is a function of the registry, the store and its arguments, so
\* the two runs agree exactly when, at every command, the long-lived
\* manager's registry is the one a manager constructed at that moment holds.
C26_FreshPerCommand ==
    [][last'.op \in Commands
          => profiles[1] = FreshlyLoaded("cli", store, now)]_vars

\* the entries of the "profiles" list of the file st ('none' when the file
\* is absent or is not a JSON object)
StoredRecords(st) ==
    IF st.exists /\ st.content.top = "object" THEN st.content.profiles ELSE <<>>

\* the entry r is still among the entries recs: one of them carries every
\* key of r with r's value, last_used apart (connect stamps it)
Kept(r, recs) ==
    \E j \in DOMAIN recs :
        /\ IsObject(recs[j])
        /\ \A f \in DOMAIN r \ {"last_used"} :
              f \in DOMAIN recs[j] /\ recs[j][f] = r[f]

\* every entry is a record from_dict accepts and no two share a name
WellFormed(recs) ==
    /\ \A i \in DOMAIN recs :
          IsObject(recs[i]) /\ RequiredKeys \subseteq DOMAIN recs[i]
    /\ DistinctNames(recs)

\* a construct, add or connect step that writes the file
Saves ==
    /\ last'.op \in {"construct", "add", "connect"}
    /\ store' # store

OnName ==
    last'.op \in {"add", "remove", "connect", "gui_add", "gui_delete", "gui_connect"}

\* the entry r of the file is the stored record of the profile the dict d
\* holds under r's name
RecordOf(r, d) ==
    /\ IsObject(r)
    /\ {"name", "id"} \subseteq DOMAIN r
    /\ HasKey(d, r.name)
    /\ DictGet(d, r.name).id = r.id

\* the entry r is among the entries recs with every key and value it has
KeptWhole(r, recs) ==
    \E j \in DOMAIN recs : \A f \in DOMAIN r : f \in DOMAIN recs[j] /\ recs[j][f] = r[f]

\* the attributes a connect does not touch
Untouched(p) == DOMAIN p \ {"last_used", "use_count"}

MenuWritten(r) == IsObject(r) /\ {"tags", "use_count"} \subseteq DOMAIN r

\* C29: a stored record with tags and use_count that an SSHManager has
\* loaded still has the same tags and use_count in the file after that
\* manager writes it back: whenever the command-line manager saves, each
\* menu-written record of a profile it holds (and does not remove) is in
\* the file written, under the same id, with the tags and use_count it had.
C29_TagsAndUseCountKept ==
    [][(last'.m = 2 /\ last'.op \in {"add", "remove", "connect"} /\ store' # store)
          => \A i \in DOMAIN StoredRecords(store) :
                LET r == StoredRecords(store)[i]
                IN  (/\ MenuWritten(r)
                     /\ RecordOf(r, profiles[2])
                     /\ HasKey(profiles'[2], r.name))
                       => \E j \in DOMAIN StoredRecords(store') :
                             LET w == StoredRecords(store')[j]
                             IN  /\ w.id = r.id
                                 /\ MenuWritten(w)
                                 /\ w.tags = r.tags
                                 /\ w.use_count = r.use_count]_vars

\* the profile q was connected to in the step: the connect dialog was
\* answered 'c' for it (the time stamp was set)
Confirmed(q) ==
    /\ last'.op \in {"gui_add", "gui_connect", "gui_search"}
    /\ last'.name = q.name
    /\ "stamp" \in Events(last'.trace)

====
